---- MODULE Spec2Model ----
(***************************************************************************)
(* Model of the "My List Table" plugin (the second init() of               *)
(* src/plugins/delete-watched-episodes/code.ts): the status normalizer,    *)
(* the row projector, the collection loader, the episode-state enricher    *)
(* and the reconciliation controller with its run-token sequencing.        *)
(*                                                                         *)
(* Conventions.                                                            *)
(*  - A JavaScript value that may be null/undefined is a sequence of       *)
(*    length at most one: None is null/undefined, Some(x) is x.            *)
(*  - A JavaScript string that the code takes apart (trim, toUpperCase,    *)
(*    parseInt, localeCompare) is a sequence of one-character strings.     *)
(*  - Numbers are integers: the host supplies Go ints for every count.     *)
(***************************************************************************)
EXTENDS Integers, Sequences, FiniteSets, TLC

\* ------------------------------------------------------------------ bounds
\* longest run of whitespace put around a status token
MaxPad == 1
\* largest episode number the generated entries and file records use
MaxEp == 3
\* most file records one generated local-file lookup returns
MaxFiles == 2
\* most load/enrich invocations started in one behaviour of the controller
MaxRuns == 3
\* most presentation events accepted in one behaviour of the preferences
MaxEvents == 2
\* most entries in one list of a generated collection
MaxListLen == 2
\* most invocations of scanFiles suspended at one time
MaxScans == 1
\* most title clicks in one behaviour that fills the diagnostic log
MaxNavigations == 125
\* most rows the view is given
MaxRows == 500

\* ------------------------------------------------------- optional values
None == << >>
Some(x) == << x >>
IsSome(v) == v # << >>
Val(v) == v[1]

\* the sequences over S of length at most n
Seqs(S, n) == UNION { [1..k -> S] : k \in 0..n }

Max2(a, b) == IF a >= b THEN a ELSE b
Min2(a, b) == IF a <= b THEN a ELSE b

\* --------------------------------------------------------------- strings
LowerCase ==
  << "a", "b", "c", "d", "e", "f", "g", "h", "i", "j", "k", "l", "m",
     "n", "o", "p", "q", "r", "s", "t", "u", "v", "w", "x", "y", "z" >>
UpperCase ==
  << "A", "B", "C", "D", "E", "F", "G", "H", "I", "J", "K", "L", "M",
     "N", "O", "P", "Q", "R", "S", "T", "U", "V", "W", "X", "Y", "Z" >>
\* the white space String.prototype.trim removes (the part of it used here)
WhiteSpace == { " ", "\t", "\n" }

LetterIndex(table, c) ==
  IF \E i \in 1..26 : table[i] = c
  THEN CHOOSE i \in 1..26 : table[i] = c
  ELSE 0

\* String.prototype.toUpperCase, character by character
UpperChar(c) ==
  IF LetterIndex(LowerCase, c) > 0 THEN UpperCase[LetterIndex(LowerCase, c)] ELSE c
toUpperCase(s) == [i \in 1..Len(s) |-> UpperChar(s[i])]

LowerChar(c) ==
  IF LetterIndex(UpperCase, c) > 0 THEN LowerCase[LetterIndex(UpperCase, c)] ELSE c
toLowerCase(s) == [i \in 1..Len(s) |-> LowerChar(s[i])]

\* String.prototype.trim: drop leading and trailing white space
RECURSIVE TrimStart(_)
TrimStart(s) ==
  IF s # << >> /\ Head(s) \in WhiteSpace THEN TrimStart(Tail(s)) ELSE s
RECURSIVE TrimEnd(_)
TrimEnd(s) ==
  IF s # << >> /\ s[Len(s)] \in WhiteSpace
  THEN TrimEnd(SubSeq(s, 1, Len(s) - 1))
  ELSE s
trim(s) == TrimEnd(TrimStart(s))

\* ------------------------------------------------------ status normalizer
CURRENT == << "C", "U", "R", "R", "E", "N", "T" >>
REPEATING == << "R", "E", "P", "E", "A", "T", "I", "N", "G" >>
COMPLETED == << "C", "O", "M", "P", "L", "E", "T", "E", "D" >>
PAUSED == << "P", "A", "U", "S", "E", "D" >>
DROPPED == << "D", "R", "O", "P", "P", "E", "D" >>
PLANNING == << "P", "L", "A", "N", "N", "I", "N", "G" >>
TableStatus == { CURRENT, COMPLETED, PAUSED, DROPPED, PLANNING }

\* a string is falsy when it is absent or empty
TruthyStr(status) == IsSome(status) /\ Val(status) # << >>

\* mutant: only the repeating token is mapped, every other token is returned
\* as it came
normalizeStatusPassesThrough(status) ==
  IF ~TruthyStr(status) THEN None
  ELSE IF Val(status) \in { CURRENT, REPEATING } THEN Some(CURRENT)
  ELSE status

\* mutant: compares the raw token, without trim and toUpperCase
normalizeStatusRaw(status) ==
  IF ~TruthyStr(status) THEN None
  ELSE LET s == Val(status)
       IN IF s \in { CURRENT, REPEATING } THEN Some(CURRENT)
          ELSE IF s \in { COMPLETED, PAUSED, DROPPED, PLANNING } THEN Some(s)
          ELSE Some(CURRENT)

normalizeStatus(status) ==
  IF ~TruthyStr(status) THEN None
  ELSE LET s == toUpperCase(trim(Val(status)))
       IN IF s \in { CURRENT, REPEATING } THEN Some(CURRENT)
          ELSE IF s \in { COMPLETED, PAUSED, DROPPED, PLANNING } THEN Some(s)
          ELSE Some(CURRENT)

\* ------------------------------------------------- numbers and their text
Digits == << "0", "1", "2", "3", "4", "5", "6", "7", "8", "9" >>
IsDigit(c) == \E i \in 1..10 : Digits[i] = c
DigitVal(c) == (CHOOSE i \in 1..10 : Digits[i] = c) - 1

RECURSIVE NatToString(_)
NatToString(n) ==
  IF n < 10 THEN << Digits[n + 1] >>
  ELSE NatToString(n \div 10) \o << Digits[(n % 10) + 1] >>

\* String(x) for an integer, undefined or null
String(v) ==
  IF ~IsSome(v) THEN << "u", "n", "d", "e", "f", "i", "n", "e", "d" >>
  ELSE IF Val(v) < 0 THEN << "-" >> \o NatToString(-Val(v))
  ELSE NatToString(Val(v))

\* the leading run of decimal digits of s, as a number; seen: a digit was read
RECURSIVE ParseDigits(_, _, _)
ParseDigits(s, acc, seen) ==
  IF s # << >> /\ IsDigit(Head(s))
  THEN ParseDigits(Tail(s), acc * 10 + DigitVal(Head(s)), TRUE)
  ELSE IF seen THEN Some(acc) ELSE None

\* parseInt(s): white space, an optional sign, digits; None is NaN
parseInt(s) ==
  LET t == TrimStart(s)
      neg == t # << >> /\ Head(t) = "-"
      body == IF t # << >> /\ Head(t) \in { "-", "+" } THEN Tail(t) ELSE t
      n == ParseDigits(body, 0, FALSE)
  IN IF ~IsSome(n) THEN None
     ELSE IF neg THEN Some(-Val(n)) ELSE n

\* x || null for a number: NaN and 0 are falsy
OrNull(n) == IF IsSome(n) /\ Val(n) # 0 THEN n ELSE None
\* x || 0 for a number
OrZero(n) == IF IsSome(n) /\ Val(n) # 0 THEN Val(n) ELSE 0

\* ----------------------------------------------------------- row projector
\* first non-empty name variant, else the placeholder "Anime #<id>"
toTitle(media) ==
  IF TruthyStr(media.title.userPreferred) THEN Val(media.title.userPreferred)
  ELSE IF TruthyStr(media.title.romaji) THEN Val(media.title.romaji)
  ELSE IF TruthyStr(media.title.english) THEN Val(media.title.english)
  ELSE IF TruthyStr(media.title.native) THEN Val(media.title.native)
  ELSE << "A", "n", "i", "m", "e", " ", "#" >> \o String(Some(media.id))

\* mutant: the score kept as it came, never divided by 10
normalizeScoreToTenUnscaled(score) ==
  IF ~IsSome(score) \/ Val(score) = 0 THEN None
  ELSE Some(Val(score) * 10)

\* score in tenths of a point (8.5 is 85); the raw score is an integer here.
\* raw > 10: round(raw / 10 * 10) / 10, that is raw tenths; else raw * 10 tenths
normalizeScoreToTen(score) ==
  IF ~IsSome(score) \/ Val(score) = 0 THEN None
  ELSE IF Val(score) > 10 THEN Some(Val(score))
  ELSE Some(Val(score) * 10)

\* mutant: releasedUnwatched without the clamp at 0
releasedUnwatchedUnclamped(latestEpisode, progress) ==
  IF IsSome(latestEpisode) THEN Some(Val(latestEpisode) - OrZero(progress)) ELSE None

releasedUnwatchedOf(latestEpisode, progress) ==
  IF IsSome(latestEpisode)
  THEN Some(Max2(0, Val(latestEpisode) - OrZero(progress)))
  ELSE None

\* the latest released episode: from the next airing episode, else the total,
\* capped by the total
latestEpisodeOf(nextAiringEpisode, totalEpisodes) ==
  LET first == IF IsSome(nextAiringEpisode)
               THEN Some(Max2(0, Val(nextAiringEpisode) - 1))
               ELSE IF IsSome(totalEpisodes) THEN totalEpisodes
               ELSE None
  IN IF IsSome(first) /\ IsSome(totalEpisodes)
     THEN Some(Min2(Val(first), Val(totalEpisodes)))
     ELSE first

\* mutant: only the entry's own status classifies, the list's is not consulted
toRowOwnStatusOnly(entry, fallbackStatus) ==
  IF ~IsSome(entry.media) THEN None
  ELSE
    LET media == Val(entry.media)
        status == normalizeStatus(entry.status)
        totalEpisodes == OrNull(parseInt(String(media.episodes)))
        latestEpisode == latestEpisodeOf(media.nextAiringEpisode, totalEpisodes)
    IN IF ~IsSome(status) THEN None
       ELSE Some([ entryId |-> entry.id,
                   mediaId |-> media.id,
                   title |-> toTitle(media),
                   progress |-> OrZero(entry.progress),
                   latestEpisode |-> latestEpisode,
                   totalEpisodes |-> totalEpisodes,
                   releasedUnwatched |->
                     releasedUnwatchedOf(latestEpisode, entry.progress),
                   downloadedUnwatched |-> None,
                   neededToDownload |-> None,
                   episodeStatuses |-> None,
                   hiddenEpisodeStatusCount |-> 0,
                   score |-> normalizeScoreToTen(entry.score),
                   status |-> Val(status),
                   format |-> IF media.format # << >> THEN media.format ELSE << "-" >> ])

\* toRow(entry, fallbackStatus): None is "no row".
\* coverImage and siteUrl are display strings nothing else reads: left out.
toRow(entry, fallbackStatus) ==
  IF ~IsSome(entry.media) THEN None
  ELSE
    LET media == Val(entry.media)
        status == normalizeStatus(
                    IF TruthyStr(entry.status) THEN entry.status ELSE fallbackStatus)
        totalEpisodes == OrNull(parseInt(String(media.episodes)))
        latestEpisode == latestEpisodeOf(media.nextAiringEpisode, totalEpisodes)
    IN IF ~IsSome(status) THEN None
       ELSE Some([ entryId |-> entry.id,
                   mediaId |-> media.id,
                   title |-> toTitle(media),
                   progress |-> OrZero(entry.progress),
                   latestEpisode |-> latestEpisode,
                   totalEpisodes |-> totalEpisodes,
                   releasedUnwatched |->
                     releasedUnwatchedOf(latestEpisode, entry.progress),
                   downloadedUnwatched |-> None,
                   neededToDownload |-> None,
                   episodeStatuses |-> None,
                   hiddenEpisodeStatusCount |-> 0,
                   score |-> normalizeScoreToTen(entry.score),
                   status |-> Val(status),
                   format |-> IF media.format # << >> THEN media.format ELSE << "-" >> ])

\* ------------------------------------------------------- collection loader
\* String.prototype.localeCompare under the root collation, for the characters
\* used here: first the characters compared without regard to case (space,
\* then "#", then digits, then letters), then lower case before upper case at
\* the first position that differs only in case.  -1, 0 or 1.
CharRank(c) ==
  IF c \in WhiteSpace THEN 0
  ELSE IF IsDigit(c) THEN 2 + DigitVal(c)
  ELSE IF LetterIndex(LowerCase, c) > 0 THEN 11 + LetterIndex(LowerCase, c)
  ELSE IF LetterIndex(UpperCase, c) > 0 THEN 11 + LetterIndex(UpperCase, c)
  ELSE 1

RECURSIVE PrimaryCompare(_, _)
PrimaryCompare(a, b) ==
  IF a = << >> /\ b = << >> THEN 0
  ELSE IF a = << >> THEN -1
  ELSE IF b = << >> THEN 1
  ELSE IF CharRank(Head(a)) < CharRank(Head(b)) THEN -1
  ELSE IF CharRank(Head(a)) > CharRank(Head(b)) THEN 1
  ELSE PrimaryCompare(Tail(a), Tail(b))

RECURSIVE CaseCompare(_, _)
CaseCompare(a, b) ==
  IF a = << >> \/ b = << >> THEN 0
  ELSE IF Head(a) = Head(b) THEN CaseCompare(Tail(a), Tail(b))
  ELSE IF LetterIndex(LowerCase, Head(a)) > 0 THEN -1
  ELSE IF LetterIndex(LowerCase, Head(b)) > 0 THEN 1
  ELSE CaseCompare(Tail(a), Tail(b))

localeCompare(a, b) ==
  IF PrimaryCompare(a, b) # 0 THEN PrimaryCompare(a, b) ELSE CaseCompare(a, b)

\* Array.prototype.sort with (a, b) => a.title.localeCompare(b.title): stable
RECURSIVE InsertByTitle(_, _)
InsertByTitle(sorted, row) ==
  IF sorted = << >> THEN << row >>
  ELSE IF localeCompare(Head(sorted).title, row.title) > 0
       THEN << row >> \o sorted
       ELSE << Head(sorted) >> \o InsertByTitle(Tail(sorted), row)

RECURSIVE SortByTitle(_, _)
SortByTitle(rows, acc) ==
  IF rows = << >> THEN acc
  ELSE SortByTitle(Tail(rows), InsertByTitle(acc, Head(rows)))

\* x || [] for an array
OrEmpty(a) == IF IsSome(a) THEN Val(a) ELSE << >>

\* the inner loop of loadRows: the rows of one list, unprojectable entries skipped
RECURSIVE ProjectEntries(_, _)
ProjectEntries(entries, fallbackStatus) ==
  IF entries = << >> THEN << >>
  ELSE LET row == toRow(Head(entries), fallbackStatus)
       IN (IF IsSome(row) THEN << Val(row) >> ELSE << >>)
          \o ProjectEntries(Tail(entries), fallbackStatus)

\* the outer loop of loadRows
RECURSIVE ProjectLists(_)
ProjectLists(lists) ==
  IF lists = << >> THEN << >>
  ELSE ProjectEntries(OrEmpty(Head(lists).entries), Head(lists).status)
       \o ProjectLists(Tail(lists))

\* mutant: the rows in the order the lists and entries came in
loadRowsUnsorted(collection) == ProjectLists(OrEmpty(collection.lists))

\* loadRows() on the collection the remote query returned
loadRows(collection) == SortByTitle(ProjectLists(OrEmpty(collection.lists)), << >>)

\* --------------------------------------------------- episode-state enricher
MAX_RENDERED_PILLS == 80

\* a row enrichRowsWithDownloadInfo looks up: CURRENT with known releasedUnwatched
Eligible(row) == row.status = CURRENT /\ IsSome(row.releasedUnwatched)

\* Number(episode.progressNumber || episode.episodeNumber)
EpNum(episode) ==
  IF episode.progressNumber # 0 THEN episode.progressNumber ELSE episode.episodeNumber

\* the Set of episode numbers of the downloaded file records (null records and
\* records not downloaded skipped, numbers that are not positive skipped)
downloadedEpisodeNumbers(entry) ==
  LET episodes == OrEmpty(entry.episodes)
  IN { EpNum(Val(episodes[i])) :
         i \in { j \in 1..Len(episodes) :
                   /\ IsSome(episodes[j])
                   /\ Val(episodes[j]).isDownloaded
                   /\ EpNum(Val(episodes[j])) > 0 } }

SetMax(S) == CHOOSE m \in S : \A x \in S : x <= m

watchedUntilOf(row) == Max2(0, row.progress)
highestDownloadedOf(downloaded) == IF downloaded # {} THEN SetMax(downloaded) ELSE 0
maxEpisodeOf(row, downloaded) ==
  Max2(Max2(watchedUntilOf(row), OrZero(row.latestEpisode)),
       highestDownloadedOf(downloaded))

\* mutant: every downloaded episode past the watched ones counts, released or not
downloadedUnwatchedOfAnyEpisode(row, downloaded) ==
  IF IsSome(row.latestEpisode)
  THEN Cardinality({ ep \in downloaded : ep > watchedUntilOf(row) })
  ELSE 0

downloadedUnwatchedOf(row, downloaded) ==
  IF IsSome(row.latestEpisode)
  THEN Cardinality({ ep \in downloaded :
                       ep > watchedUntilOf(row) /\ ep <= Val(row.latestEpisode) })
  ELSE 0

\* mutant: neededToDownload from latestEpisode instead of releasedUnwatched
neededToDownloadFromLatest(row, downloadedUnwatched) ==
  LET released == parseInt(String(row.latestEpisode))
  IN IF IsSome(released)
     THEN Some(Max2(0, Val(released) - downloadedUnwatched))
     ELSE None

\* Math.max(0, parseInt(String(row.releasedUnwatched)) - downloadedUnwatched);
\* None is NaN
neededToDownloadOf(row, downloadedUnwatched) ==
  LET released == parseInt(String(row.releasedUnwatched))
  IN IF IsSome(released)
     THEN Some(Max2(0, Val(released) - downloadedUnwatched))
     ELSE None

\* mutant: the timeline starts at episode 1 however long the run
startEpisodeOfWholeRun(maxEpisode) == 1

startEpisodeOf(maxEpisode) ==
  IF maxEpisode > MAX_RENDERED_PILLS THEN maxEpisode - MAX_RENDERED_PILLS + 1 ELSE 1

\* mutant: the hidden count as the distance from the window start to maxEpisode
hiddenEpisodeStatusCountFromStart(maxEpisode) ==
  maxEpisode - startEpisodeOf(maxEpisode)

hiddenEpisodeStatusCountOf(maxEpisode) ==
  IF maxEpisode > MAX_RENDERED_PILLS THEN maxEpisode - MAX_RENDERED_PILLS ELSE 0

\* mutant: the loop body with the downloaded test before the watched test
episodeStatusDownloadedFirst(episodeNumber, watchedUntil, latestKnown, downloaded) ==
  IF episodeNumber \in downloaded
  THEN << [ episode |-> episodeNumber, state |-> "downloaded" ] >>
  ELSE IF episodeNumber <= watchedUntil
  THEN << [ episode |-> episodeNumber, state |-> "watched" ] >>
  ELSE IF IsSome(latestKnown) /\ episodeNumber <= Val(latestKnown)
  THEN << [ episode |-> episodeNumber, state |-> "missing" ] >>
  ELSE << >>

\* the body of the for loop: what one episode number pushes onto episodeStatuses
episodeStatus(episodeNumber, watchedUntil, latestKnown, downloaded) ==
  IF episodeNumber <= watchedUntil
  THEN << [ episode |-> episodeNumber, state |-> "watched" ] >>
  ELSE IF episodeNumber \in downloaded
  THEN << [ episode |-> episodeNumber, state |-> "downloaded" ] >>
  ELSE IF IsSome(latestKnown) /\ episodeNumber <= Val(latestKnown)
  THEN << [ episode |-> episodeNumber, state |-> "missing" ] >>
  ELSE << >>

\* the for loop from startEpisode to maxEpisode: the pushes of its iterations
\* in order (the range is halved to keep the evaluation shallow)
RECURSIVE episodeStatusesFrom(_, _, _, _, _)
episodeStatusesFrom(startEpisode, maxEpisode, watchedUntil, latestKnown, downloaded) ==
  IF startEpisode > maxEpisode THEN << >>
  ELSE IF startEpisode = maxEpisode
  THEN episodeStatus(startEpisode, watchedUntil, latestKnown, downloaded)
  ELSE LET mid == (startEpisode + maxEpisode) \div 2
       IN episodeStatusesFrom(startEpisode, mid, watchedUntil, latestKnown, downloaded)
          \o episodeStatusesFrom(mid + 1, maxEpisode, watchedUntil, latestKnown,
                                 downloaded)

\* the body of the try block: the row with its four enrichment fields, from
\* the entry the local-file lookup returned
enrichRow(row, entry) ==
  LET downloaded == downloadedEpisodeNumbers(entry)
      maxEpisode == maxEpisodeOf(row, downloaded)
      downloadedUnwatched == downloadedUnwatchedOf(row, downloaded)
  IN [ row EXCEPT
         !.downloadedUnwatched = Some(downloadedUnwatched),
         !.neededToDownload = neededToDownloadOf(row, downloadedUnwatched),
         !.episodeStatuses =
           Some(episodeStatusesFrom(startEpisodeOf(maxEpisode), maxEpisode,
                                    watchedUntilOf(row), row.latestEpisode,
                                    downloaded)),
         !.hiddenEpisodeStatusCount = hiddenEpisodeStatusCountOf(maxEpisode) ]

\* ------------------------------------------------ reconciliation controller
VARIABLES
  started,               \* the register callback has reached its initial refresh
  rowsState,             \* the authoritative row set
  loadingState,          \* the loading flag
  isEpDataLoadingState,  \* the enrichment-in-progress flag
  errorState,            \* the last error message, "" when none
  debugLogsState,        \* the diagnostic log (time stamps left out)
  refreshRunId,          \* the shared run counter
  toasts,                \* the notifications emitted, oldest first
  enrichRuns,            \* the enrich invocations suspended at their await
  last                   \* history: the handler or continuation that ran last

ctlVars ==
  << started, rowsState, loadingState, isEpDataLoadingState, errorState,
     debugLogsState, refreshRunId, toasts, enrichRuns, last >>

DEBUG_LOG_LIMIT == 120

\* one diagnostic line: its fixed text, the numbers and the text spliced into it
Log(tag, nums, text) == [ tag |-> tag, nums |-> nums, text |-> text ]

\* mutant: a full log drops the new entry and keeps the oldest
pushDebugLogDropsNewest(prev, logLine) ==
  LET next == Append(prev, logLine)
  IN IF Len(next) > DEBUG_LOG_LIMIT THEN SubSeq(next, 1, DEBUG_LOG_LIMIT) ELSE next

\* the updater pushDebugLog hands to debugLogsState.set
pushDebugLog(prev, logLine) ==
  LET next == Append(prev, logLine)
  IN IF Len(next) > DEBUG_LOG_LIMIT
     THEN SubSeq(next, Len(next) - DEBUG_LOG_LIMIT + 1, Len(next))
     ELSE next

\* the controller's cells as one record, for the handlers below
Ctl ==
  [ rows |-> rowsState, loading |-> loadingState,
    epLoading |-> isEpDataLoadingState, error |-> errorState,
    logs |-> debugLogsState, runId |-> refreshRunId, toasts |-> toasts,
    runs |-> enrichRuns ]

SetCtl(c) ==
  /\ rowsState' = c.rows
  /\ loadingState' = c.loading
  /\ isEpDataLoadingState' = c.epLoading
  /\ errorState' = c.error
  /\ debugLogsState' = c.logs
  /\ refreshRunId' = c.runId
  /\ toasts' = c.toasts
  /\ enrichRuns' = c.runs

\* what $anilist.getAnimeCollection(false) did: returned a collection, or threw
FetchOk(collection) ==
  [ ok |-> TRUE, collection |-> collection, isError |-> FALSE, message |-> "" ]
FetchThrow(isError, message) ==
  [ ok |-> FALSE, collection |-> [ lists |-> None ], isError |-> isError,
    message |-> message ]

\* error instanceof Error ? error.message : 'Failed to fetch anime list'
fetchFailureMessage(fetch) ==
  IF fetch.isError THEN fetch.message ELSE "Failed to fetch anime list"

CountStatus(rows, status) ==
  Cardinality({ i \in 1..Len(rows) : rows[i].status = status })
statusCounts(rows) ==
  << CountStatus(rows, CURRENT), CountStatus(rows, COMPLETED),
     CountStatus(rows, PAUSED), CountStatus(rows, DROPPED),
     CountStatus(rows, PLANNING) >>

\* the try block of refreshRows once loadRows() has returned
refreshRowsTry(c, runId, collection) ==
  LET loadedRows == loadRows(collection)
      logs2 == pushDebugLog(c.logs,
                 Log("refreshRows:base-loaded rows=", << Len(loadedRows) >>, ""))
      logs3 == pushDebugLog(logs2,
                 Log("refreshRows:success rows=",
                     << Len(loadedRows) >> \o statusCounts(loadedRows), ""))
  IN IF runId # c.runId THEN c
     ELSE [ c EXCEPT !.rows = loadedRows, !.logs = logs3 ]

\* mutant: a failed load that keeps the rows it had
refreshRowsCatchKeepsRows(c, runId, fetch) ==
  LET message == fetchFailureMessage(fetch)
  IN IF runId # c.runId THEN c
     ELSE [ c EXCEPT
              !.error = message,
              !.logs = pushDebugLog(c.logs,
                         Log("refreshRows:error ", << >>, message)),
              !.toasts = Append(c.toasts, "Failed to load anime list") ]

\* the catch block of refreshRows
refreshRowsCatch(c, runId, fetch) ==
  LET message == fetchFailureMessage(fetch)
  IN IF runId # c.runId THEN c
     ELSE [ c EXCEPT
              !.rows = << >>,
              !.error = message,
              !.logs = pushDebugLog(c.logs,
                         Log("refreshRows:error ", << >>, message)),
              !.toasts = Append(c.toasts, "Failed to load anime list") ]

\* the finally block of refreshRows
refreshRowsFinally(c, runId) ==
  IF runId # c.runId THEN c
  ELSE [ c EXCEPT
           !.loading = FALSE,
           !.epLoading = FALSE,
           !.logs = pushDebugLog(c.logs,
                      Log("refreshRows:end loading=false", << >>, "")) ]

\* refreshRows(): it has no await, so it runs from its first line to the end
\* of its finally block in one step
refreshRows(c, fetch) ==
  LET runId == c.runId + 1
      \* loadingState.set(true); isEpDataLoadingState.set(false); errorState.set('')
      c1 == [ c EXCEPT
                !.runId = runId,
                !.logs = pushDebugLog(c.logs, Log("refreshRows:start", << >>, "")),
                !.loading = TRUE,
                !.epLoading = FALSE,
                !.error = "" ]
      c2 == IF fetch.ok
            THEN refreshRowsTry(c1, runId, fetch.collection)
            ELSE refreshRowsCatch(c1, runId, fetch)
  IN refreshRowsFinally(c2, runId)

\* ------------------------------------------------------------------ enrich
\* what ctx.anime.getAnimeEntry(mediaId) did: resolved with an entry, or rejected
LookupOk(entry) == [ ok |-> TRUE, entry |-> entry, message |-> "" ]
LookupFail(message) == [ ok |-> FALSE, entry |-> [ episodes |-> None ], message |-> message ]

\* one row callback of rows.map: returned at once (row not eligible), waiting
\* for its lookup, or returned after it
Returned(row) == [ state |-> "returned", entry |-> [ episodes |-> None ], row |-> row ]
Pending(row) == [ state |-> "pending", entry |-> [ episodes |-> None ], row |-> row ]
AllSettled(run) == \A i \in 1..Len(run.lookups) : run.lookups[i].state # "pending"
enrichedRows(run) == [ i \in 1..Len(run.lookups) |-> run.lookups[i].row ]

\* mutant: the continuation of loadEnrichedEpisodes without its token checks
finishEnrichUnchecked(c, run) ==
  [ c EXCEPT
      !.rows = enrichedRows(run),
      !.logs = pushDebugLog(c.logs,
                 Log("loadEnrichedEpisodes:success rows=",
                     << Len(enrichedRows(run)) >>, "")),
      !.epLoading = FALSE,
      !.runs = { r \in c.runs : r.runId # run.runId } ]

\* mutant: the continuation of loadEnrichedEpisodes without its finally block
finishEnrichLeavesFlag(c, run) ==
  IF run.runId # c.runId
  THEN [ c EXCEPT !.runs = { r \in c.runs : r.runId # run.runId } ]
  ELSE [ c EXCEPT
           !.rows = enrichedRows(run),
           !.logs = pushDebugLog(c.logs,
                      Log("loadEnrichedEpisodes:success rows=",
                          << Len(enrichedRows(run)) >>, "")),
           !.runs = { r \in c.runs : r.runId # run.runId } ]

\* loadEnrichedEpisodes() from the point where its await resumes: the token
\* check, the commit, and the finally block with its own token check
finishEnrich(c, run) ==
  IF run.runId # c.runId
  THEN [ c EXCEPT !.runs = { r \in c.runs : r.runId # run.runId } ]
  ELSE [ c EXCEPT
           !.rows = enrichedRows(run),
           !.logs = pushDebugLog(c.logs,
                      Log("loadEnrichedEpisodes:success rows=",
                          << Len(enrichedRows(run)) >>, "")),
           !.epLoading = FALSE,
           !.runs = { r \in c.runs : r.runId # run.runId } ]

\* mutant: a lookup is issued for every CURRENT row, its unwatched count known
\* or not
loadEnrichedEpisodesEveryCurrentRow(c) ==
  LET runId == c.runId + 1
      currentRows == c.rows
      run == [ runId |-> runId,
               currentRows |-> currentRows,
               lookups |-> [ i \in 1..Len(currentRows) |->
                               IF currentRows[i].status = CURRENT
                               THEN Pending(currentRows[i])
                               ELSE Returned(currentRows[i]) ] ]
      c1 == [ c EXCEPT
                !.runId = runId,
                !.logs = pushDebugLog(c.logs,
                           Log("loadEnrichedEpisodes:start", << >>, "")),
                !.epLoading = TRUE,
                !.error = "" ]
  IN IF AllSettled(run)
     THEN finishEnrich(c1, run)
     ELSE [ c1 EXCEPT !.runs = c1.runs \cup { run } ]

\* mutant: the invocation takes the counter as it finds it for its token
loadEnrichedEpisodesReusesToken(c) ==
  LET runId == c.runId
      currentRows == c.rows
      run == [ runId |-> runId,
               currentRows |-> currentRows,
               lookups |-> [ i \in 1..Len(currentRows) |->
                               IF Eligible(currentRows[i])
                               THEN Pending(currentRows[i])
                               ELSE Returned(currentRows[i]) ] ]
      c1 == [ c EXCEPT
                !.runId = runId,
                !.logs = pushDebugLog(c.logs,
                           Log("loadEnrichedEpisodes:start", << >>, "")),
                !.epLoading = TRUE,
                !.error = "" ]
  IN IF AllSettled(run)
     THEN finishEnrich(c1, run)
     ELSE [ c1 EXCEPT !.runs = c1.runs \cup { run } ]

\* loadEnrichedEpisodes() up to its await: the token, the flags, the snapshot,
\* and one lookup issued for every eligible row.  With no eligible row the
\* awaited promise is already settled and the continuation runs before any
\* other handler.
loadEnrichedEpisodes(c) ==
  LET runId == c.runId + 1
      currentRows == c.rows
      run == [ runId |-> runId,
               currentRows |-> currentRows,
               lookups |-> [ i \in 1..Len(currentRows) |->
                               IF Eligible(currentRows[i])
                               THEN Pending(currentRows[i])
                               ELSE Returned(currentRows[i]) ] ]
      c1 == [ c EXCEPT
                !.runId = runId,
                !.logs = pushDebugLog(c.logs,
                           Log("loadEnrichedEpisodes:start", << >>, "")),
                !.epLoading = TRUE,
                !.error = "" ]
  IN IF AllSettled(run)
     THEN finishEnrich(c1, run)
     ELSE [ c1 EXCEPT !.runs = c1.runs \cup { run } ]

\* mutant: a failed lookup rejects the whole enrichment, which then takes the
\* catch block of loadEnrichedEpisodes
settleLookupAborting(c, run, i, outcome) ==
  IF outcome.ok
  THEN LET run2 == [ run EXCEPT !.lookups[i] =
                       [ state |-> "ok", entry |-> outcome.entry,
                         row |-> enrichRow(run.lookups[i].row, outcome.entry) ] ]
           c1 == [ c EXCEPT !.runs = (c.runs \ { run }) \cup { run2 } ]
       IN IF AllSettled(run2) THEN finishEnrich(c1, run2) ELSE c1
  ELSE IF run.runId # c.runId
  THEN [ c EXCEPT !.runs = c.runs \ { run } ]
  ELSE [ c EXCEPT
           !.error = outcome.message,
           !.logs = pushDebugLog(c.logs,
                      Log("loadEnrichedEpisodes:error ", << >>, outcome.message)),
           !.toasts = Append(c.toasts, "Failed to load download status"),
           !.epLoading = FALSE,
           !.runs = c.runs \ { run } ]

\* one row callback resuming from await ctx.anime.getAnimeEntry: the try block
\* on an entry, the catch block on a rejection.  When it was the last callback
\* still waiting, Promise.all settles and the continuation of
\* loadEnrichedEpisodes runs before any other handler.
settleLookup(c, run, i, outcome) ==
  LET row == run.lookups[i].row
      settled ==
        IF outcome.ok
        THEN [ state |-> "ok", entry |-> outcome.entry,
               row |-> enrichRow(row, outcome.entry) ]
        ELSE [ state |-> "failed", entry |-> outcome.entry, row |-> row ]
      run2 == [ run EXCEPT !.lookups[i] = settled ]
      logs1 == IF outcome.ok THEN c.logs
               ELSE pushDebugLog(c.logs,
                      Log("download-info:error mediaId= message=",
                          << row.mediaId >>, outcome.message))
      c1 == [ c EXCEPT !.logs = logs1, !.runs = (c.runs \ { run }) \cup { run2 } ]
  IN IF AllSettled(run2) THEN finishEnrich(c1, run2) ELSE c1

\* -------------------------------------------------------------- JavaScript values
\* A value of a payload field or of the key/value store: its type tag, and for
\* a number its kind and magnitude (n, or n + 0.5 when half), for a string its
\* text (s) and, where the code parses it, its characters (chars).
JsValue(t, k, n, half, b, s, chars) ==
  [ t |-> t, k |-> k, n |-> n, half |-> half, b |-> b, s |-> s, chars |-> chars ]
Undefined == JsValue("undefined", "", 0, FALSE, FALSE, "", << >>)
Null == JsValue("null", "", 0, FALSE, FALSE, "", << >>)
Bool(b) == JsValue("boolean", "", 0, FALSE, b, "", << >>)
Num(n) == JsValue("number", "finite", n, FALSE, FALSE, "", << >>)
NumAndHalf(n) == JsValue("number", "finite", n, TRUE, FALSE, "", << >>)
NaN == JsValue("number", "nan", 0, FALSE, FALSE, "", << >>)
Infinity == JsValue("number", "inf", 0, FALSE, FALSE, "", << >>)
Str(s, chars) == JsValue("string", "", 0, FALSE, FALSE, s, chars)

\* typeof v
typeof(v) == IF v.t = "null" THEN "object" ELSE v.t
\* ToBoolean: what !v, v && w and Boolean(v) test
Truthy(v) ==
  CASE v.t = "boolean" -> v.b
    [] v.t = "number" -> v.k = "inf" \/ (v.k = "finite" /\ (v.n # 0 \/ v.half))
    [] v.t = "string" -> v.s # ""
    [] OTHER -> FALSE
\* Number(v): undefined is NaN, null is 0, a boolean 0 or 1, a string its
\* decimal digits (the empty or blank string 0) or NaN
Number(v) ==
  CASE v.t = "undefined" -> NaN
    [] v.t = "null" -> Num(0)
    [] v.t = "boolean" -> Num(IF v.b THEN 1 ELSE 0)
    [] v.t = "number" -> v
    [] OTHER ->
         LET text == trim(v.chars)
             neg == text # << >> /\ Head(text) = "-"
             body == IF text # << >> /\ Head(text) \in { "-", "+" } THEN Tail(text) ELSE text
         IN IF text = << >> THEN Num(0)
            ELSE IF body # << >> /\ \A i \in 1..Len(body) : IsDigit(body[i])
            THEN Num(IF neg THEN -Val(ParseDigits(body, 0, FALSE))
                        ELSE Val(ParseDigits(body, 0, FALSE)))
            ELSE NaN
\* Number.isFinite(v)
isFinite(v) == v.t = "number" /\ v.k = "finite"
\* Math.round of a finite number: n + 0.5 rounds up to n + 1
round(v) == IF v.half THEN v.n + 1 ELSE v.n
\* v ?? d
Coalesce(v, d) == IF v.t \in { "undefined", "null" } THEN d ELSE v

\* ------------------------------------------------------------- preferences
COVER_SIZE_MIN == 28
COVER_SIZE_MAX == 92
DEFAULT_COVER_SIZE == 42
ColumnKeys ==
  { "cover", "title", "watched", "total", "score", "status", "progress",
    "unwatched", "format" }
DEFAULT_COLUMN_VISIBILITY == [ k \in ColumnKeys |-> TRUE ]
\* property names every object inherits from Object.prototype (some of them)
ObjectPrototypeKeys == { "toString", "constructor", "hasOwnProperty", "valueOf" }
\* key in object, for an object literal: its own keys and the inherited ones
HasProperty(key, object) == key \in DOMAIN object \/ key \in ObjectPrototypeKeys
\* { ...a, ...b }
Spread(a, b) ==
  [ k \in DOMAIN a \cup DOMAIN b |-> IF k \in DOMAIN b THEN b[k] ELSE a[k] ]
\* { ...prev, [column]: visible }
WithKey(prev, column, visible) ==
  [ k \in DOMAIN prev \cup { column } |-> IF k = column THEN visible ELSE prev[k] ]

\* the key/value store: the three keys this plugin reads; columnVisibility is
\* None when the key is absent
Store(columnVisibility, coverSize, showFormatColumn) ==
  [ columnVisibility |-> columnVisibility, coverSize |-> coverSize,
    showFormatColumn |-> showFormatColumn ]
EmptyStore == Store(None, Undefined, Undefined)

\* mergedColumnVisibility as the register callback computes it
mergedColumnVisibility(store) ==
  LET storedColumnVisibility == IF IsSome(store.columnVisibility)
                                THEN Val(store.columnVisibility) ELSE << >>
      merged == Spread(DEFAULT_COLUMN_VISIBILITY, storedColumnVisibility)
  IN IF typeof(store.showFormatColumn) = "boolean"
        /\ ~HasProperty("format", storedColumnVisibility)
     THEN WithKey(merged, "format", store.showFormatColumn.b)
     ELSE merged

\* mutant: the stored size taken as it is
initialCoverSizeUnclamped(store) ==
  LET storedCoverSize == Number(Coalesce(store.coverSize, Num(DEFAULT_COVER_SIZE)))
  IN IF isFinite(storedCoverSize) THEN storedCoverSize.n ELSE DEFAULT_COVER_SIZE

\* initialCoverSize as the register callback computes it (stored sizes are whole)
initialCoverSize(store) ==
  LET storedCoverSize == Number(Coalesce(store.coverSize, Num(DEFAULT_COVER_SIZE)))
  IN Max2(COVER_SIZE_MIN,
          Min2(COVER_SIZE_MAX,
               IF isFinite(storedCoverSize) THEN storedCoverSize.n
               ELSE DEFAULT_COVER_SIZE))

\* an event payload: undefined, null, or an object with the fields the
\* handlers read (a field the object lacks reads as undefined)
Payload(t, column, visible, size, mediaId) ==
  [ t |-> t, column |-> column, visible |-> visible, size |-> size, mediaId |-> mediaId ]
NoPayload == Payload("undefined", Undefined, Undefined, Undefined, Undefined)
NullPayload == Payload("null", Undefined, Undefined, Undefined, Undefined)
EmptyObject == Payload("object", Undefined, Undefined, Undefined, Undefined)
IsObject(payload) == payload.t = "object"
\* payload && payload.size
AndSize(payload) ==
  IF payload.t = "undefined" THEN Undefined
  ELSE IF payload.t = "null" THEN Null
  ELSE payload.size

VARIABLES
  columnVisibilityState, \* the per-column visibility map
  coverSizeState,        \* the thumbnail size
  storage,               \* the key/value store ($storage)
  navigations,           \* the calls of ctx.screen.navigateTo, oldest first
  remote                 \* what the remote library query can do: its outcomes

prefVars == << columnVisibilityState, coverSizeState, storage, navigations >>

\* the cells of the preferences as one record, for the handlers below
Prefs ==
  [ columnVisibility |-> columnVisibilityState, coverSize |-> coverSizeState,
    store |-> storage, logs |-> debugLogsState, navigations |-> navigations ]
SetPrefs(p) ==
  /\ columnVisibilityState' = p.columnVisibility
  /\ coverSizeState' = p.coverSize
  /\ storage' = p.store
  /\ debugLogsState' = p.logs
  /\ navigations' = p.navigations

\* mutant: the handler navigates once for the check it passed and once more
openAnimeTwice(p, payload) ==
  IF ~IsObject(payload) \/ typeof(payload.mediaId) # "number" THEN p
  ELSE [ p EXCEPT
           !.logs = pushDebugLog(p.logs,
                      Log("channel:open-anime mediaId=", << payload.mediaId.n >>,
                          payload.mediaId.k)),
           !.navigations = p.navigations
                             \o << [ path |-> "/entry", id |-> payload.mediaId ],
                                   [ path |-> "/entry", id |-> payload.mediaId ] >> ]

\* the handler of the open-anime event
openAnime(p, payload) ==
  IF ~IsObject(payload) \/ typeof(payload.mediaId) # "number" THEN p
  ELSE [ p EXCEPT
           !.logs = pushDebugLog(p.logs,
                      Log("channel:open-anime mediaId=", << payload.mediaId.n >>,
                          payload.mediaId.k)),
           !.navigations = Append(p.navigations,
                             [ path |-> "/entry", id |-> payload.mediaId ]) ]

\* mutant: the store is written with the map as it was before the update
setColumnVisibilityStoresPrevious(p, payload) ==
  IF \/ ~IsObject(payload)
     \/ ~Truthy(payload.column)
     \/ ~(payload.column.t = "string"
          /\ HasProperty(payload.column.s, DEFAULT_COLUMN_VISIBILITY))
  THEN p
  ELSE LET column == payload.column.s
           visible == Truthy(payload.visible)
           next == WithKey(p.columnVisibility, column, visible)
       IN [ p EXCEPT
              !.columnVisibility = next,
              !.store = [ p.store EXCEPT !.columnVisibility = Some(p.columnVisibility) ],
              !.logs = pushDebugLog(p.logs,
                         Log("channel:set-column-visibility column= visible=",
                             << IF visible THEN 1 ELSE 0 >>, column)) ]

\* the handler of the set-column-visibility event
setColumnVisibility(p, payload) ==
  IF \/ ~IsObject(payload)
     \/ ~Truthy(payload.column)
     \/ ~(payload.column.t = "string"
          /\ HasProperty(payload.column.s, DEFAULT_COLUMN_VISIBILITY))
  THEN p
  ELSE LET column == payload.column.s
           visible == Truthy(payload.visible)
           next == WithKey(p.columnVisibility, column, visible)
       IN [ p EXCEPT
              !.columnVisibility = next,
              !.store = [ p.store EXCEPT !.columnVisibility = Some(next) ],
              !.logs = pushDebugLog(p.logs,
                         Log("channel:set-column-visibility column= visible=",
                             << IF visible THEN 1 ELSE 0 >>, column)) ]

\* mutant: the size applied and persisted as requested, rounded only
setCoverSizeUnclamped(p, payload) ==
  LET size == Number(AndSize(payload))
  IN IF ~isFinite(size) THEN p
     ELSE [ p EXCEPT
              !.coverSize = round(size),
              !.store = [ p.store EXCEPT !.coverSize = Num(round(size)) ],
              !.logs = pushDebugLog(p.logs,
                         Log("channel:set-cover-size size=", << round(size) >>, "")) ]

\* the handler of the set-cover-size event
setCoverSize(p, payload) ==
  LET size == Number(AndSize(payload))
      nextSize == Max2(COVER_SIZE_MIN, Min2(COVER_SIZE_MAX, round(size)))
  IN IF ~isFinite(size) THEN p
     ELSE [ p EXCEPT
              !.coverSize = nextSize,
              !.store = [ p.store EXCEPT !.coverSize = Num(nextSize) ],
              !.logs = pushDebugLog(p.logs,
                         Log("channel:set-cover-size size=", << nextSize >>, "")) ]

\* ------------------------------------------------------------------ the view
\* The App component of the webview: its React state, the values it
\* memoizes, and what it computes at each render.  The filter inputs of the
\* toolbar are left at their initial empty text, where they filter nothing.
VIRTUALIZE_AFTER_ROWS == 120
OVERSCAN_ROWS == 10
ROW_HEIGHT_WITH_EPISODES == 84
ROW_HEIGHT_PLAIN == 62
DEFAULT_VIEWPORT_HEIGHT == 700

\* a number as the fraction num / den, den > 0
Whole(n) == << n, 1 >>
OptWhole(v) == IF IsSome(v) THEN Some(Whole(Val(v))) ELSE None

\* compareNullableNumber(a, b): an unknown value after every known one
compareNullableNumber(a, b) ==
  IF ~IsSome(a) /\ ~IsSome(b) THEN 0
  ELSE IF ~IsSome(a) THEN 1
  ELSE IF ~IsSome(b) THEN -1
  ELSE IF Val(a)[1] * Val(b)[2] = Val(b)[1] * Val(a)[2] THEN 0
  ELSE IF Val(a)[1] * Val(b)[2] > Val(b)[1] * Val(a)[2] THEN 1
  ELSE -1

\* compareText(a, b): localeCompare with sensitivity "base", which takes
\* letters that differ in case only as equal
compareText(a, b) == PrimaryCompare(a, b)

\* progressSortValue(row): progress / totalEpisodes, or null
progressSortValue(row) ==
  IF IsSome(row.totalEpisodes) /\ Val(row.totalEpisodes) > 0
  THEN Some(<< row.progress, Val(row.totalEpisodes) >>)
  ELSE None

\* the comparator sortedRows hands to Array.prototype.sort
compareRows(a, b, sortKey, sortDir) ==
  LET direction == IF sortDir = "asc" THEN 1 ELSE -1
      byKey ==
        CASE sortKey = "title" -> compareText(a.title, b.title)
          [] sortKey = "watched" ->
               compareNullableNumber(Some(Whole(a.progress)), Some(Whole(b.progress)))
          [] sortKey = "total" ->
               compareNullableNumber(OptWhole(a.totalEpisodes), OptWhole(b.totalEpisodes))
          [] sortKey = "score" ->
               compareNullableNumber(OptWhole(a.score), OptWhole(b.score))
          [] sortKey = "progress" ->
               IF compareNullableNumber(progressSortValue(a), progressSortValue(b)) # 0
               THEN compareNullableNumber(progressSortValue(a), progressSortValue(b))
               ELSE compareNullableNumber(Some(Whole(a.progress)), Some(Whole(b.progress)))
          [] sortKey = "unwatched" ->
               compareNullableNumber(OptWhole(a.downloadedUnwatched),
                                     OptWhole(b.downloadedUnwatched))
          [] sortKey = "format" -> compareText(a.format, b.format)
          [] OTHER -> 0
      result == IF byKey # 0 THEN byKey ELSE compareText(a.title, b.title)
  IN result * direction

\* Array.prototype.sort with that comparator: stable, so each row goes to the
\* place after the rows that compare before it and the equal rows ahead of it
sortPlaces(rows, sortKey, sortDir) ==
  [ i \in 1..Len(rows) |->
      Cardinality({ j \in 1..Len(rows) :
        LET c == compareRows(rows[j], rows[i], sortKey, sortDir)
        IN c < 0 \/ (c = 0 /\ j < i) }) + 1 ] \o << >>
\* the rows, each at its place
rowsAtPlaces(rows, place) ==
  [ k \in 1..Len(rows) |-> rows[CHOOSE i \in 1..Len(rows) : place[i] = k] ] \o << >>
sortRows(rows, sortKey, sortDir) ==
  rowsAtPlaces(rows, sortPlaces(rows, sortKey, sortDir))

\* rows.filter(...) of visibleRows with the filter inputs empty
filterRows(rows, activeTab) == SelectSeq(rows, LAMBDA row : row.status = activeTab)

\* Math.ceil(a / b) for a >= 0, b > 0
CeilDiv(a, b) == (a + b - 1) \div b

VARIABLES
  view   \* the React state of App and the values it memoizes

\* what App computes at each render
showUnwatchedColumn(v) == v.columnVisibility["unwatched"] /\ v.activeTab = CURRENT
virtualRowHeight(v) ==
  IF showUnwatchedColumn(v) THEN ROW_HEIGHT_WITH_EPISODES ELSE ROW_HEIGHT_PLAIN
shouldVirtualize(v) == Len(v.sortedRows) > VIRTUALIZE_AFTER_ROWS
virtualStartRaw(v) ==
  IF shouldVirtualize(v)
  THEN Max2(0, (v.scrollTop \div virtualRowHeight(v)) - OVERSCAN_ROWS)
  ELSE 0
maxStartIndex(v) == Max2(0, Len(v.sortedRows) - 1)
virtualStart(v) ==
  IF shouldVirtualize(v) THEN Min2(maxStartIndex(v), virtualStartRaw(v)) ELSE 0

\* mutant: the overscan counted once
visibleCountOneOverscan(v) ==
  IF shouldVirtualize(v)
  THEN Max2(1, CeilDiv(v.viewportHeight, virtualRowHeight(v)) + OVERSCAN_ROWS)
  ELSE Len(v.sortedRows)

visibleCount(v) ==
  IF shouldVirtualize(v)
  THEN Max2(1, CeilDiv(v.viewportHeight, virtualRowHeight(v)) + OVERSCAN_ROWS * 2)
  ELSE Len(v.sortedRows)
virtualEnd(v) ==
  IF shouldVirtualize(v)
  THEN Min2(Len(v.sortedRows), virtualStart(v) + visibleCount(v))
  ELSE Len(v.sortedRows)
\* sortedRows.slice(virtualStart, virtualEnd): indices from 0, end excluded
rowsForRender(v) ==
  IF shouldVirtualize(v)
  THEN SubSeq(v.sortedRows, virtualStart(v) + 1, virtualEnd(v))
  ELSE v.sortedRows

\* mutant: the top spacer up to the first row in view, not the first row rendered
topSpacerHeightAtScroll(v) ==
  IF shouldVirtualize(v)
  THEN (v.scrollTop \div virtualRowHeight(v)) * virtualRowHeight(v)
  ELSE 0

topSpacerHeight(v) ==
  IF shouldVirtualize(v) THEN virtualStart(v) * virtualRowHeight(v) ELSE 0
bottomSpacerHeight(v) ==
  IF shouldVirtualize(v)
  THEN Max2(0, (Len(v.sortedRows) - virtualEnd(v)) * virtualRowHeight(v))
  ELSE 0

\* the two useMemo values, computed anew when rows, tab or sort order changed
withVisibleRows(v, visibleRows) ==
  [ v EXCEPT !.visibleRows = visibleRows,
             !.sortedRows = sortRows(visibleRows, v.sortKey, v.sortDir) ]
Render(v) == withVisibleRows(v, filterRows(v.rows, v.activeTab))

\* the table is rendered, and tableWrapRef.current is its scroll container,
\* when there are rows to show (the view is past loading, without error)
hasTable(v) == Len(v.sortedRows) > 0

\* el.clientHeight || d
ClientHeightOr(v, d) == IF v.elClientHeight # 0 THEN v.elClientHeight ELSE d

\* the effect that subscribes to scroll and resize: updateViewport(), onScroll()
listenEffect(v) ==
  IF ~hasTable(v) THEN v
  ELSE [ v EXCEPT !.viewportHeight = ClientHeightOr(v, DEFAULT_VIEWPORT_HEIGHT),
                  !.scrollTop = v.elScrollTop ]

\* the effect that scrolls to the top when the tab changes
tabEffect(v) ==
  IF ~hasTable(v) THEN v ELSE [ v EXCEPT !.elScrollTop = 0, !.scrollTop = 0 ]

\* the largest scroll offset the clamp effect allows
maxScrollTop(v) ==
  Max2(0, Len(v.sortedRows) * virtualRowHeight(v) - ClientHeightOr(v, v.viewportHeight))

\* the effect that keeps the scroll offset within the virtual height
clampScrollEffect(v) ==
  IF hasTable(v) /\ shouldVirtualize(v) /\ v.elScrollTop > maxScrollTop(v)
  THEN [ v EXCEPT !.elScrollTop = maxScrollTop(v), !.scrollTop = maxScrollTop(v) ]
  ELSE v

\* the effect that leaves the episode-status sort key outside the CURRENT tab
sortKeyEffect(v) ==
  IF v.activeTab # CURRENT /\ v.sortKey = "unwatched"
  THEN Render([ v EXCEPT !.sortKey = "title", !.sortDir = "asc" ])
  ELSE v

\* the useState initial values
ViewInit ==
  view = [ rows |-> << >>, activeTab |-> CURRENT,
           columnVisibility |-> DEFAULT_COLUMN_VISIBILITY,
           sortKey |-> "title", sortDir |-> "asc",
           scrollTop |-> 0, viewportHeight |-> DEFAULT_VIEWPORT_HEIGHT,
           visibleRows |-> << >>, sortedRows |-> << >>,
           elScrollTop |-> 0, elClientHeight |-> DEFAULT_VIEWPORT_HEIGHT ]

\* what follows a change of rows or tab: the render, a scroll container that
\* is new when the table was not there before, then the effects in the order
\* App declares them
mountTable(before, rendered) ==
  IF hasTable(before) /\ hasTable(rendered) THEN rendered
  ELSE [ rendered EXCEPT !.elScrollTop = 0 ]
runEffects(before, mounted) ==
  sortKeyEffect(clampScrollEffect(
    IF mounted.activeTab # before.activeTab
    THEN tabEffect(listenEffect(mounted))
    ELSE IF Len(mounted.rows) # Len(before.rows)
    THEN listenEffect(mounted)
    ELSE mounted))
Commit(before, changed) == runEffects(before, mountTable(before, Render(changed)))

\* mutant: a new key takes over the direction of the key before it
onSortColumnKeepsDirection(v, key) ==
  IF v.sortKey = key
  THEN [ v EXCEPT !.sortDir = IF v.sortDir = "asc" THEN "desc" ELSE "asc" ]
  ELSE [ v EXCEPT !.sortKey = key ]

\* onSortColumn(key)
onSortColumn(v, key) ==
  IF v.sortKey = key
  THEN [ v EXCEPT !.sortDir = IF v.sortDir = "asc" THEN "desc" ELSE "asc" ]
  ELSE [ v EXCEPT !.sortKey = key, !.sortDir = "asc" ]

\* ------------------------------------------------------------------ inputs
NoTitle == [ userPreferred |-> None, romaji |-> None, english |-> None, native |-> None ]
Media(id, title, episodes, nextAiringEpisode) ==
  [ id |-> id, title |-> title, episodes |-> episodes,
    nextAiringEpisode |-> nextAiringEpisode, format |-> << "T", "V" >> ]
Entry(id, media, status, progress, score) ==
  [ id |-> id, media |-> media, status |-> status, progress |-> progress,
    score |-> score ]
FileRecord(isDownloaded, progressNumber, episodeNumber) ==
  Some([ isDownloaded |-> isDownloaded, progressNumber |-> progressNumber,
         episodeNumber |-> episodeNumber ])

\* the remote library as the controller's behaviours see it: title 1 airing
\* (progress 5, next airing episode 10), title 2 finished airing, title 3
\* completed and without any name, and an entry without a title record
CollectionA ==
  [ lists |-> Some(<<
      [ status |-> Some(CURRENT),
        entries |-> Some(<<
          Entry(11, Some(Media(1, [ NoTitle EXCEPT !.romaji = Some(<< "b" >>) ],
                               Some(12), Some(10))),
                Some(<< " ", "C", "u", "r", "r", "e", "n", "t", " " >>),
                Some(5), Some(85)),
          Entry(12, Some(Media(2, [ NoTitle EXCEPT !.userPreferred = Some(<< "a" >>) ],
                               Some(3), None)),
                None, Some(1), None) >>) ],
      [ status |-> Some(toLowerCase(COMPLETED)),
        entries |-> Some(<<
          Entry(13, Some(Media(3, NoTitle, Some(2), None)), None, Some(2), Some(7)),
          Entry(14, None, Some(COMPLETED), Some(1), None) >>) ] >>) ]

\* the same library later: title 1 one episode further, the rest gone
CollectionB ==
  [ lists |-> Some(<<
      [ status |-> Some(CURRENT),
        entries |-> Some(<<
          Entry(11, Some(Media(1, [ NoTitle EXCEPT !.romaji = Some(<< "b" >>) ],
                               Some(12), Some(10))),
                Some(CURRENT), Some(6), Some(85)) >>) ] >>) ]

FetchOutcomes ==
  { FetchOk(CollectionA), FetchOk(CollectionB),
    FetchThrow(TRUE, "network unreachable"), FetchThrow(FALSE, "") }

\* the local files of a title: episodes 6, 7 and 9 of title 1 (7 twice, 8 not
\* downloaded, one null record), episode 2 of any other title
LibraryEntry(mediaId) ==
  IF mediaId = 1
  THEN [ episodes |-> Some(<< FileRecord(TRUE, 6, 6), FileRecord(TRUE, 7, 7),
                              None, FileRecord(FALSE, 8, 8),
                              FileRecord(TRUE, 7, 7), FileRecord(TRUE, 0, 9) >>) ]
  ELSE [ episodes |-> Some(<< FileRecord(TRUE, 2, 2) >>) ]

LookupOutcomes(mediaId) ==
  { LookupOk(LibraryEntry(mediaId)), LookupFail("entry not found") }

\* ------------------------------------------ watched-episode deletion plugin
\* The first register callback of the file: the tray that scans the library
\* for local files of watched episodes and removes them.  The badge, the
\* toasts, the tab of the tray and the console are display only and left out.
VARIABLES
  tray,         \* the cells and field references of the tray
  trayStorage,  \* the keys of $storage the tray reads and writes
  scans,        \* the invocations of scanFiles suspended at their await
  disk          \* the paths on disk, and the paths $os.remove has removed

delVars == << tray, trayStorage, scans, disk >>

\* ------------------------------------------------------- pure-function state
VARIABLES
  phase,       \* which function has been applied to the drawn input
  token,       \* a raw status token
  normalized,  \* normalizeStatus(token)
  entry,       \* a raw remote entry
  fallback,    \* the status of the list the entry came in
  projected,   \* toRow(entry, fallback)
  files,       \* the entry a local-file lookup returned
  enriched     \* the row after enrichment

pureVars == << phase, token, normalized, entry, fallback, projected, files, enriched >>
vars == << ctlVars, prefVars, remote, view, delVars, pureVars >>

NoEntry == Entry(0, None, None, None, None)
NoFiles == [ episodes |-> None ]

PureIdle ==
  /\ phase = "idle"
  /\ token = None
  /\ normalized = None
  /\ entry = NoEntry
  /\ fallback = None
  /\ projected = None
  /\ files = NoFiles
  /\ enriched = None

\* ------------------------------------------- the settings of the tray
\* a value of $storage as the tray uses it: undefined (no such key), null, a
\* boolean, a string (its characters) or an array of strings
TrayValue(t, b, chars, items) == [ t |-> t, b |-> b, chars |-> chars, items |-> items ]
TUndefined == TrayValue("undefined", FALSE, << >>, << >>)
TNull == TrayValue("null", FALSE, << >>, << >>)
TBool(b) == TrayValue("boolean", b, << >>, << >>)
TStr(chars) == TrayValue("string", FALSE, chars, << >>)
TArr(items) == TrayValue("array", FALSE, << >>, items)
\* !value
TFalsy(v) ==
  \/ v.t \in { "undefined", "null" }
  \/ v.t = "boolean" /\ ~v.b
  \/ v.t = "string" /\ v.chars = << >>

TrayStore(customEpisodeStorePath, ignoreLocked, excludeList, showFullPath) ==
  [ customEpisodeStorePath |-> customEpisodeStorePath, ignoreLocked |-> ignoreLocked,
    excludeList |-> excludeList, showFullPath |-> showFullPath ]
EmptyTrayStore == TrayStore(TUndefined, TUndefined, TUndefined, TUndefined)

\* getOrSetDefault(key, defaultValue): the value returned and the store it leaves
getOrSetDefault(store, key, defaultValue) ==
  IF TFalsy(store[key])
  THEN [ store |-> [ store EXCEPT ![key] = defaultValue ], value |-> defaultValue ]
  ELSE [ store |-> store, value |-> store[key] ]

NoDeleteError == [ text |-> "", failed |-> 0 ]

\* the cells and field references the register callback of the tray creates,
\* and the store its four getOrSetDefault calls leave
trayStart(store) ==
  LET path == getOrSetDefault(store, "customEpisodeStorePath", TNull)
      locked == getOrSetDefault(path.store, "ignoreLocked", TBool(TRUE))
      exclude == getOrSetDefault(locked.store, "excludeList", TArr(<< >>))
      full == getOrSetDefault(exclude.store, "showFullPath", TBool(FALSE))
      \* getOrSetDefault('customEpisodeStorePath', null) || ''
      customEpisodeStorePath == IF TFalsy(path.value) THEN << >> ELSE path.value.chars
  IN [ store |-> full.store,
       cells |->
         [ isScanning |-> FALSE, isDeleting |-> FALSE, filesToDelete |-> << >>,
           totalSize |-> 0, deletionProgress |-> 0, scanError |-> "",
           deleteError |-> NoDeleteError,
           customEpisodeStorePath |-> customEpisodeStorePath,
           ignoreLocked |-> locked.value.b,
           excludeList |-> exclude.value.items,
           showFullPath |-> full.value.b,
           customEpisodeStorePathRef |-> customEpisodeStorePath,
           ignoreLockedRef |-> locked.value.b,
           showFullPathRef |-> full.value.b,
           newExcludePathRef |-> << >> ] ]

\* the tray as its register callback leaves it on a store, nothing on disk
TrayInit(store) ==
  /\ tray = trayStart(store).cells
  /\ trayStorage = trayStart(store).store
  /\ scans = {}
  /\ disk = [ present |-> {}, removed |-> << >>, failed |-> << >> ]

\* ---------------------------------------------------- controller behaviours
NoFetch == FetchThrow(FALSE, "")
NoLookup == LookupFail("")
Last(op, runId, fetch, index, lookup) ==
  [ op |-> op, runId |-> runId, fetch |-> fetch, index |-> index, lookup |-> lookup,
    payload |-> NoPayload ]
LastEvent(op, payload) ==
  [ Last(op, 0, NoFetch, 0, NoLookup) EXCEPT !.payload = payload ]

\* the cells of the preferences as the register callback creates them from
\* the store it finds
PrefInit(store) ==
  /\ storage = store
  /\ columnVisibilityState = mergedColumnVisibility(store)
  /\ coverSizeState = initialCoverSize(store)
  /\ navigations = << >>

\* the cells as the register callback creates them
ListCellsInit ==
  /\ started = FALSE
  /\ rowsState = << >>
  /\ loadingState = TRUE
  /\ isEpDataLoadingState = FALSE
  /\ errorState = ""
  /\ debugLogsState = << >>
  /\ refreshRunId = 0
  /\ toasts = << >>
  /\ enrichRuns = {}
  /\ last = Last("init", 0, NoFetch, 0, NoLookup)

\* both register callbacks of the file have run on an empty store
CellsInit ==
  /\ TrayInit(EmptyTrayStore)
  /\ ListCellsInit

\* a first run: nothing in the store, a remote library that may hold either
\* collection or fail
CtlInit ==
  /\ CellsInit
  /\ PrefInit(EmptyStore)
  /\ remote = FetchOutcomes
  /\ ViewInit

Logged(c, tag) == [ c EXCEPT !.logs = pushDebugLog(c.logs, Log(tag, << >>, "")) ]

\* the last two statements of the register callback: the initial refresh
Startup ==
  /\ ~started
  /\ \E fetch \in remote :
       /\ SetCtl(refreshRows(Logged(Ctl, "plugin:init calling initial refresh"), fetch))
       /\ last' = Last("load", refreshRunId + 1, fetch, 0, NoLookup)
  /\ started' = TRUE
  /\ UNCHANGED << pureVars, prefVars, remote, view, delVars >>

\* the handler of the refresh event
OnRefresh ==
  /\ started
  /\ refreshRunId < MaxRuns
  /\ \E fetch \in remote :
       /\ SetCtl(refreshRows(Logged(Ctl, "channel:refresh payload="), fetch))
       /\ last' = Last("load", refreshRunId + 1, fetch, 0, NoLookup)
  /\ UNCHANGED << started, pureVars, prefVars, remote, view, delVars >>

\* the handler of the load-enriched-episodes event
OnLoadEnrichedEpisodes ==
  /\ started
  /\ refreshRunId < MaxRuns
  /\ SetCtl(loadEnrichedEpisodes(
              Logged(Ctl, "channel:load-enriched-episodes payload=")))
  /\ last' = Last("enrich", refreshRunId + 1, NoFetch, 0, NoLookup)
  /\ UNCHANGED << started, pureVars, prefVars, remote, view, delVars >>

\* a local-file lookup of a suspended enrich invocation settles
LookupSettles ==
  /\ \E run \in enrichRuns :
       \E i \in 1..Len(run.lookups) :
         /\ run.lookups[i].state = "pending"
         /\ \E outcome \in LookupOutcomes(run.lookups[i].row.mediaId) :
              /\ SetCtl(settleLookup(Ctl, run, i, outcome))
              /\ last' = Last("lookup", run.runId, NoFetch, i, outcome)
  /\ UNCHANGED << started, pureVars, prefVars, remote, view, delVars >>

Init == CtlInit /\ PureIdle
Next == Startup \/ OnRefresh \/ OnLoadEnrichedEpisodes \/ LookupSettles
Spec == Init /\ [][Next]_vars

\* ------------------------------------------------ presentation-event handlers
WithColumn(column, visible) ==
  [ EmptyObject EXCEPT !.column = column, !.visible = visible ]
WithSize(size) == [ EmptyObject EXCEPT !.size = size ]
WithMediaId(mediaId) == [ EmptyObject EXCEPT !.mediaId = mediaId ]

OpenAnimePayloads ==
  { NoPayload, NullPayload, EmptyObject, WithMediaId(Str("7", << "7" >>)),
    WithMediaId(Num(7)), WithMediaId(NaN) }
VisibilityPayloads ==
  { NoPayload, EmptyObject,
    WithColumn(Str("cover", << >>), Bool(FALSE)),
    WithColumn(Str("cover", << >>), Bool(TRUE)),
    WithColumn(Str("format", << >>), Bool(FALSE)),
    WithColumn(Str("cover", << >>), Undefined),
    WithColumn(Str("cover", << >>), Str("yes", << >>)),
    WithColumn(Str("bogus", << >>), Bool(FALSE)),
    WithColumn(Str("toString", << >>), Bool(TRUE)),
    WithColumn(Str("", << >>), Bool(FALSE)),
    WithColumn(Num(5), Bool(FALSE)) }
CoverSizePayloads ==
  { NoPayload, NullPayload, EmptyObject, WithSize(Null),
    WithSize(Str("abc", << "a", "b", "c" >>)), WithSize(Str("50", << "5", "0" >>)),
    WithSize(NaN), WithSize(Infinity), WithSize(Num(10)), WithSize(Num(64)),
    WithSize(NumAndHalf(50)), WithSize(Num(200)) }

\* what the handlers of the presentation events leave alone
eventFrame ==
  << started, rowsState, loadingState, isEpDataLoadingState, errorState,
     refreshRunId, toasts, enrichRuns, remote, view, pureVars, delVars >>

\* the handler of the open-anime event
OnOpenAnime ==
  /\ started
  /\ \E payload \in OpenAnimePayloads :
       /\ SetPrefs(openAnime(Prefs, payload))
       /\ last' = LastEvent("open-anime", payload)
  /\ UNCHANGED eventFrame

\* the view's title link: open-anime with the title id of a row it shows
OnTitleClick ==
  /\ started
  /\ \E i \in 1..Len(rowsState) :
       LET payload == WithMediaId(Num(rowsState[i].mediaId))
       IN /\ SetPrefs(openAnime(Prefs, payload))
          /\ last' = LastEvent("open-anime", payload)
  /\ UNCHANGED eventFrame

\* the handler of the set-column-visibility event, on one of the payloads
OnSetColumnVisibilityOf(payloads) ==
  /\ started
  /\ \E payload \in payloads :
       /\ SetPrefs(setColumnVisibility(Prefs, payload))
       /\ last' = LastEvent("set-column-visibility", payload)
  /\ UNCHANGED eventFrame
OnSetColumnVisibility == OnSetColumnVisibilityOf(VisibilityPayloads)

\* mutant: the handler also clears the visible error
OnSetCoverSizeOfClearsError(payloads) ==
  /\ started
  /\ \E payload \in payloads :
       /\ SetPrefs(setCoverSize(Prefs, payload))
       /\ last' = LastEvent("set-cover-size", payload)
  /\ errorState' = ""
  /\ UNCHANGED << started, rowsState, loadingState, isEpDataLoadingState,
                  refreshRunId, toasts, enrichRuns, remote, view, pureVars, delVars >>

\* the handler of the set-cover-size event, on one of the payloads
OnSetCoverSizeOf(payloads) ==
  /\ started
  /\ \E payload \in payloads :
       /\ SetPrefs(setCoverSize(Prefs, payload))
       /\ last' = LastEvent("set-cover-size", payload)
  /\ UNCHANGED eventFrame
OnSetCoverSize == OnSetCoverSizeOf(CoverSizePayloads)

\* ------------------------------------------ the preferences and their events
\* what an earlier session can have left in the store: nothing; the map and
\* size this version writes; the single boolean of the first version with a
\* size out of range; a map without the format column (and a size that is no
\* number) beside the single boolean; a map with the format column beside it
Stores ==
  { EmptyStore,
    Store(Some([ DEFAULT_COLUMN_VISIBILITY EXCEPT !["cover"] = FALSE ]), Num(64),
          Undefined),
    Store(None, Num(200), Bool(FALSE)),
    Store(Some([ k \in { "title", "score" } |-> k = "title" ]),
          Str("abc", << "a", "b", "c" >>), Bool(FALSE)),
    Store(Some([ DEFAULT_COLUMN_VISIBILITY EXCEPT !["format"] = TRUE ]), Num(10),
          Bool(FALSE)) }

InitPrefs ==
  /\ CellsInit
  /\ ViewInit
  /\ \E store \in Stores : PrefInit(store)
  /\ remote = { FetchOk(CollectionB) }
  /\ PureIdle

\* the startup log entries and MaxEvents accepted events
EventsLeft == Len(debugLogsState) < 5 + MaxEvents

NextPrefs ==
  \/ Startup
  \/ (EventsLeft /\ OnOpenAnime)
  \/ (EventsLeft /\ OnSetColumnVisibility)
  \/ (EventsLeft /\ OnSetCoverSize)
SpecPrefs == InitPrefs /\ [][NextPrefs]_vars

\* --------------------------------------------- the collection loader on its own
LoadPool ==
  { Entry(31, Some(Media(1, [ NoTitle EXCEPT !.romaji = Some(<< "b" >>) ], None, None)),
          Some(CURRENT), None, None),
    Entry(32, Some(Media(2, [ NoTitle EXCEPT !.userPreferred = Some(<< "a" >>) ], None, None)),
          None, None, None),
    Entry(33, Some(Media(3, [ NoTitle EXCEPT !.english = Some(<< "B" >>) ], None, None)),
          Some(PAUSED), None, None),
    Entry(34, None, Some(CURRENT), None, None) }
\* two lists, the second without a status of its own
GenCollections ==
  { [ lists |-> None ] } \cup
  { [ lists |-> Some(<< [ status |-> Some(COMPLETED), entries |-> Some(a) ],
                        [ status |-> None, entries |-> Some(b) ] >>) ] :
      a \in Seqs(LoadPool, MaxListLen), b \in Seqs(LoadPool, MaxListLen) }

\* a remote library that holds the same collection at every fetch
InitLoad ==
  /\ CellsInit
  /\ ViewInit
  /\ PrefInit(EmptyStore)
  /\ \E collection \in GenCollections : remote = { FetchOk(collection) }
  /\ PureIdle

NextLoad == Startup \/ OnRefresh
SpecLoad == InitLoad /\ [][NextLoad]_vars

\* ------------------------------------------------ the diagnostic log filling up
InitLog ==
  /\ CellsInit
  /\ ViewInit
  /\ PrefInit(EmptyStore)
  /\ remote = { FetchOk(CollectionB), FetchThrow(TRUE, "network unreachable") }
  /\ PureIdle

NextLog == Startup \/ (Len(navigations) < MaxNavigations /\ OnTitleClick)
SpecLog == InitLog /\ [][NextLog]_vars

\* ------------------------------------------- loads of unprojectable entries
\* an entry without a title record, one without a status, one whose status is
\* the empty string, one whose status is blank, and one with a status
SkipPool ==
  { Entry(41, None, Some(CURRENT), None, None),
    Entry(42, Some(Media(2, [ NoTitle EXCEPT !.romaji = Some(<< "a" >>) ], None, None)),
          None, None, None),
    Entry(43, Some(Media(3, [ NoTitle EXCEPT !.romaji = Some(<< "b" >>) ], None, None)),
          Some(<< >>), None, None),
    Entry(44, Some(Media(4, [ NoTitle EXCEPT !.romaji = Some(<< "c" >>) ], None, None)),
          Some(<< " " >>), None, None),
    Entry(45, Some(Media(5, [ NoTitle EXCEPT !.romaji = Some(<< "d" >>) ], None, None)),
          Some(PAUSED), None, None) }
\* a list without a status, with the empty string for one, and with one
SkipListStatuses == { None, Some(<< >>), Some(COMPLETED) }
SkipCollections ==
  { [ lists |-> Some(<< [ status |-> status, entries |-> Some(entries) ] >>) ] :
      status \in SkipListStatuses, entries \in Seqs(SkipPool, MaxListLen) }

InitSkip ==
  /\ CellsInit
  /\ ViewInit
  /\ PrefInit(EmptyStore)
  /\ \E collection \in SkipCollections : remote = { FetchOk(collection) }
  /\ PureIdle

NextSkip == Startup \/ OnRefresh
SpecSkip == InitSkip /\ [][NextSkip]_vars

\* ------------------------------------------ loads of arbitrary status tokens
\* what upstream may put where a status goes: nothing, the empty string, a
\* re-cased word, an unknown word, a padded word, a canonical word
TokenPool ==
  { None, Some(<< >>), Some(toLowerCase(REPEATING)), Some(<< "x" >>),
    Some(<< " " >> \o PLANNING), Some(DROPPED) }
\* one list of one airing title (progress 2, 12 episodes), the list and the
\* entry each with a token of their own
TokenCollections ==
  { [ lists |-> Some(<<
        [ status |-> listStatus,
          entries |-> Some(<<
            Entry(51, Some(Media(2, [ NoTitle EXCEPT !.romaji = Some(<< "t" >>) ],
                                 Some(12), None)),
                  entryStatus, Some(2), None) >>) ] >>) ] :
      listStatus \in TokenPool, entryStatus \in TokenPool }

InitTokens ==
  /\ CellsInit
  /\ ViewInit
  /\ PrefInit(EmptyStore)
  /\ \E collection \in TokenCollections : remote = { FetchOk(collection) }
  /\ PureIdle

SpecTokens == InitTokens /\ [][Next]_vars

\* ------------------------------- loads, enrichments and preference events
\* a library with a title that is airing (progress 5, next airing episode 10),
\* a CURRENT title of which no episode count is known, and a PAUSED title
CollectionC ==
  [ lists |-> Some(<<
      [ status |-> Some(CURRENT),
        entries |-> Some(<<
          Entry(11, Some(Media(1, [ NoTitle EXCEPT !.romaji = Some(<< "b" >>) ],
                               Some(12), Some(10))),
                Some(CURRENT), Some(5), Some(85)),
          Entry(15, Some(Media(5, [ NoTitle EXCEPT !.english = Some(<< "c" >>) ],
                               None, None)),
                None, Some(2), None) >>) ],
      [ status |-> Some(PAUSED),
        entries |-> Some(<<
          Entry(16, Some(Media(6, [ NoTitle EXCEPT !.native = Some(<< "a" >>) ],
                               Some(24), None)),
                None, Some(3), Some(70)) >>) ] >>) ]

\* the store the first version left (its single boolean, a size out of range),
\* a library that answers or fails
InitCycle ==
  /\ CellsInit
  /\ ViewInit
  /\ PrefInit(Store(None, Num(200), Bool(FALSE)))
  /\ remote = { FetchOk(CollectionC), FetchThrow(TRUE, "network unreachable") }
  /\ PureIdle

\* the payloads of the preference events: a column hidden, and a size; each
\* handler takes the payload of the other as one without its field
CyclePayloads == { WithColumn(Str("cover", << >>), Bool(FALSE)), WithSize(Num(64)) }

\* the preference events accepted so far, by the entries they logged
PrefEventsLogged ==
  Cardinality({ k \in 1..Len(debugLogsState) :
                  debugLogsState[k].tag \in
                    { "channel:set-column-visibility column= visible=",
                      "channel:set-cover-size size=" } })

NextCycle ==
  \/ Startup
  \/ OnRefresh
  \/ OnLoadEnrichedEpisodes
  \/ LookupSettles
  \/ (PrefEventsLogged < MaxEvents /\ OnSetColumnVisibilityOf(CyclePayloads))
  \/ (PrefEventsLogged < MaxEvents /\ OnSetCoverSizeOf(CyclePayloads))
SpecCycle == InitCycle /\ [][NextCycle]_vars

\* ----------------------------------------------- sessions over one store
\* mutant: the single boolean of the first version decides the format column
\* whatever the stored map holds
restartedColumnVisibilityLegacyFirst(store) ==
  LET storedColumnVisibility == IF IsSome(store.columnVisibility)
                                THEN Val(store.columnVisibility) ELSE << >>
      merged == Spread(DEFAULT_COLUMN_VISIBILITY, storedColumnVisibility)
  IN IF typeof(store.showFormatColumn) = "boolean"
     THEN WithKey(merged, "format", store.showFormatColumn.b)
     ELSE merged

\* the map the register callback computes when it runs again on the store an
\* earlier session left
restartedColumnVisibility(store) == mergedColumnVisibility(store)

\* the host loads the plugin again: the register callback runs from its first
\* line on the store as the last session left it, with new cells and a new
\* run counter; what the last session had suspended is gone with it
Restart ==
  /\ started
  /\ started' = FALSE
  /\ rowsState' = << >>
  /\ loadingState' = TRUE
  /\ isEpDataLoadingState' = FALSE
  /\ errorState' = ""
  /\ debugLogsState' = << >>
  /\ refreshRunId' = 0
  /\ toasts' = << >>
  /\ enrichRuns' = {}
  /\ columnVisibilityState' = restartedColumnVisibility(storage)
  /\ coverSizeState' = initialCoverSize(storage)
  /\ navigations' = << >>
  /\ last' = Last("restart", 0, NoFetch, 0, NoLookup)
  /\ UNCHANGED << storage, remote, view, pureVars, delVars >>

\* the requests of the sessions: the cover column hidden, the format column
\* shown and hidden, a size
RestartPayloads ==
  { WithColumn(Str("cover", << >>), Bool(FALSE)),
    WithColumn(Str("format", << >>), Bool(TRUE)),
    WithColumn(Str("format", << >>), Bool(FALSE)),
    WithSize(Num(64)) }

NextRestart ==
  \/ Startup
  \/ (PrefEventsLogged < MaxEvents /\ OnSetColumnVisibilityOf(RestartPayloads))
  \/ (PrefEventsLogged < MaxEvents /\ OnSetCoverSizeOf(RestartPayloads))
  \/ Restart
SpecRestart == InitPrefs /\ [][NextRestart]_vars

\* ------------------------------------------------ the settings of the tray
\* what the handlers of the tray leave alone
trayFrame ==
  << started, rowsState, loadingState, isEpDataLoadingState, errorState,
     debugLogsState, refreshRunId, toasts, enrichRuns, prefVars, remote, view,
     pureVars >>

\* what the user types into the path field and into the field of a new
\* exclusion: nothing, or a text with blanks around it
PathInputs == { << >>, << "/", "a", " " >> }
ExcludeInputs == { << >>, << " ", "X" >> }

\* the form of the settings tab writes a field reference
OnFieldChange ==
  /\ \E path \in PathInputs, locked \in BOOLEAN, full \in BOOLEAN,
        exclude \in ExcludeInputs :
       tray' = [ tray EXCEPT !.customEpisodeStorePathRef = path,
                             !.ignoreLockedRef = locked,
                             !.showFullPathRef = full,
                             !.newExcludePathRef = exclude ]
  /\ tray' # tray
  /\ last' = LastEvent("field-change", NoPayload)
  /\ UNCHANGED << trayStorage, scans, disk, trayFrame >>

\* the store and the cells the save-settings handler leaves
saveSettings(store, cells) ==
  [ store |->
      [ store EXCEPT !.ignoreLocked = TBool(cells.ignoreLockedRef),
                     !.excludeList = TArr(cells.excludeList),
                     !.customEpisodeStorePath = TStr(trim(cells.customEpisodeStorePathRef)),
                     !.showFullPath = TBool(cells.showFullPathRef) ],
    cells |->
      [ cells EXCEPT !.ignoreLocked = cells.ignoreLockedRef,
                     !.customEpisodeStorePath = trim(cells.customEpisodeStorePathRef),
                     !.showFullPath = cells.showFullPathRef ] ]

OnSaveSettings ==
  /\ tray' = saveSettings(trayStorage, tray).cells
  /\ trayStorage' = saveSettings(trayStorage, tray).store
  /\ last' = LastEvent("save-settings", NoPayload)
  /\ UNCHANGED << scans, disk, trayFrame >>

\* the cells the add-to-exclude handler leaves
addToExclude(cells) ==
  LET path == trim(cells.newExcludePathRef)
  IN IF path = << >> \/ \E i \in 1..Len(cells.excludeList) : cells.excludeList[i] = path
     THEN cells
     ELSE [ cells EXCEPT !.excludeList = Append(cells.excludeList, path),
                         !.newExcludePathRef = << >> ]

OnAddToExclude ==
  /\ tray' = addToExclude(tray)
  /\ last' = LastEvent("add-to-exclude", NoPayload)
  /\ UNCHANGED << trayStorage, scans, disk, trayFrame >>

\* excludeList.get().filter((_, i) => i !== index)
removeFromExclude(cells, index) ==
  [ cells EXCEPT !.excludeList =
      SubSeq(cells.excludeList, 1, index) \o
      SubSeq(cells.excludeList, index + 2, Len(cells.excludeList)) ]

\* the handler of the Remove button the tray drew beside entry `index`
OnRemoveFromExclude ==
  /\ \E index \in 0..(Len(tray.excludeList) - 1) :
       tray' = removeFromExclude(tray, index)
  /\ last' = LastEvent("remove-from-exclude", NoPayload)
  /\ UNCHANGED << trayStorage, scans, disk, trayFrame >>

\* the host loads the plugin again: the register callback of the tray runs on
\* the store as the last session left it; what was suspended is gone
TrayStart ==
  /\ tray' = trayStart(trayStorage).cells
  /\ trayStorage' = trayStart(trayStorage).store
  /\ scans' = {}
  /\ last' = LastEvent("tray-start", NoPayload)
  /\ UNCHANGED << disk, trayFrame >>

InitSettings ==
  /\ CellsInit
  /\ ViewInit
  /\ PrefInit(EmptyStore)
  /\ remote = { FetchOk(CollectionB) }
  /\ PureIdle

NextSettings ==
  \/ OnFieldChange
  \/ OnSaveSettings
  \/ OnAddToExclude
  \/ OnRemoveFromExclude
  \/ TrayStart
SpecSettings == InitSettings /\ [][NextSettings]_vars

\* ------------------------------------------------- scanning and deleting
\* a local file as the host reports it (metadata?.episode is optional), and
\* an entry of the confirmation list
LocalFile(path, episode, locked) == [ path |-> path, episode |-> episode, locked |-> locked ]
FileToDelete(path, episode, anime, size) ==
  [ path |-> path, episode |-> episode, anime |-> anime, size |-> size ]

\* what ctx.anime.getAnimeEntry did: resolved with an entry (localFiles is
\* optional), or rejected
FilesOk(localFiles) == [ ok |-> TRUE, localFiles |-> localFiles ]
FilesFail == [ ok |-> FALSE, localFiles |-> None ]

\* String.prototype.startsWith and String.prototype.includes
startsWith(s, prefix) ==
  Len(prefix) <= Len(s) /\ SubSeq(s, 1, Len(prefix)) = prefix
includes(s, part) ==
  \E i \in 0..(Len(s) - Len(part)) : SubSeq(s, i + 1, i + Len(part)) = part

\* mutant: the filter without the comparison of the episode with the progress
isWatchedFileAnyEpisode(cells, progress, file) ==
  /\ file.episode # None /\ file.episode[1] # 0
  /\ progress # 0
  /\ cells.customEpisodeStorePath # << >>
       => startsWith(file.path, cells.customEpisodeStorePath)
  /\ cells.ignoreLocked => ~file.locked
  /\ ~\E i \in 1..Len(cells.excludeList) :
        includes(trim(toLowerCase(file.path)), trim(toLowerCase(cells.excludeList[i])))

\* the predicate of localFiles.filter: the file of a watched episode that the
\* settings do not hold back
isWatchedFile(cells, progress, file) ==
  /\ file.episode # None /\ file.episode[1] # 0
  /\ progress # 0
  /\ file.episode[1] <= progress
  /\ cells.customEpisodeStorePath # << >>
       => startsWith(file.path, cells.customEpisodeStorePath)
  /\ cells.ignoreLocked => ~file.locked
  /\ ~\E i \in 1..Len(cells.excludeList) :
        includes(trim(toLowerCase(file.path)), trim(toLowerCase(cells.excludeList[i])))

UnknownTitle == << "U", "n", "k", "n", "o", "w", "n" >>

\* what the callback of allEntries.map returns once its lookup has settled;
\* every file on disk is 10 bytes long
scannedFiles(cells, present, listEntry, lookup) ==
  IF ~lookup.ok \/ lookup.localFiles = None
  THEN << >>
  ELSE LET kept == SelectSeq(lookup.localFiles[1],
                             LAMBDA file : isWatchedFile(cells, listEntry.progress[1], file))
           \* entry.media.title?.userPreferred || 'Unknown'
           preferred == listEntry.media[1].title.userPreferred
           currentTitle ==
             IF preferred = None \/ preferred[1] = << >> THEN UnknownTitle ELSE preferred[1]
           \* $os.stat(file.path).size(), 0 when stat throws
           fileSize(path) == IF path \in present THEN 10 ELSE 0
       IN [ i \in 1..Len(kept) |->
              FileToDelete(kept[i].path, kept[i].episode[1], currentTitle,
                           fileSize(kept[i].path)) ]

\* lists.flatMap((list) => list.entries || [])
RECURSIVE allEntriesOf(_)
allEntriesOf(lists) ==
  IF lists = << >>
  THEN << >>
  ELSE (IF Head(lists).entries = None THEN << >> ELSE Head(lists).entries[1])
       \o allEntriesOf(Tail(lists))

\* one callback of allEntries.map: returned, or waiting for its lookup
ScanReturned(listEntry, found) == [ state |-> "returned", entry |-> listEntry, files |-> found ]
ScanPending(listEntry) == [ state |-> "pending", entry |-> listEntry, files |-> << >> ]
ScanSettled(run) == \A i \in 1..Len(run.lookups) : run.lookups[i].state # "pending"

\* the callbacks of allEntries.map up to their first await
scanPromises(allEntries) ==
  [ i \in 1..Len(allEntries) |->
      IF \/ allEntries[i].media = None
         \/ allEntries[i].media[1].id = 0
         \/ allEntries[i].progress = None
      THEN ScanReturned(allEntries[i], << >>)
      ELSE ScanPending(allEntries[i]) ]

\* results.flat()
RECURSIVE foundFilesOf(_)
foundFilesOf(lookups) ==
  IF lookups = << >> THEN << >> ELSE Head(lookups).files \o foundFilesOf(Tail(lookups))

\* the files whose path occurs at no smaller index
RECURSIVE uniqueFilesFrom(_, _)
uniqueFilesFrom(foundFiles, index) ==
  IF index > Len(foundFiles)
  THEN << >>
  ELSE (IF \E j \in 1..(index - 1) : foundFiles[j].path = foundFiles[index].path
        THEN << >>
        ELSE << foundFiles[index] >>)
       \o uniqueFilesFrom(foundFiles, index + 1)

RECURSIVE totalBytes(_)
totalBytes(found) ==
  IF found = << >> THEN 0 ELSE Head(found).size + totalBytes(Tail(found))

\* the cells scanFiles leaves at its first lines, in its catch and finally
\* blocks, and after Promise.all
scanBegins(cells) ==
  [ cells EXCEPT !.isScanning = TRUE, !.scanError = "", !.filesToDelete = << >>,
                 !.totalSize = 0 ]
scanFails(cells, message) ==
  [ cells EXCEPT !.scanError = message, !.isScanning = FALSE ]
scanEnds(cells, run) ==
  LET uniqueFiles == uniqueFilesFrom(foundFilesOf(run.lookups), 1)
  IN [ cells EXCEPT !.filesToDelete = uniqueFiles,
                    !.totalSize = totalBytes(uniqueFiles),
                    !.isScanning = FALSE ]

\* the handler of scan-files: scanFiles up to its await, or to its end when
\* nothing is awaited
OnScanFiles ==
  /\ Cardinality(scans) < MaxScans
  /\ \E fetch \in remote :
       LET cells == scanBegins(tray)
           run == [ id |-> CHOOSE n \in 1..MaxScans : \A r \in scans : r.id # n,
                    lookups |-> scanPromises(allEntriesOf(fetch.collection.lists[1])) ]
       IN IF ~fetch.ok
          THEN tray' = scanFails(cells, fetch.message) /\ scans' = scans
          ELSE IF fetch.collection.lists = None
          THEN /\ tray' = scanFails(cells, "Failed to fetch anime collection")
               /\ scans' = scans
          ELSE IF ScanSettled(run)
          THEN tray' = scanEnds(cells, run) /\ scans' = scans
          ELSE tray' = cells /\ scans' = scans \cup { run }
  /\ last' = LastEvent("scan-files", NoPayload)
  /\ UNCHANGED << trayStorage, disk, trayFrame >>

\* the library the scans see: title 1 with progress 2, an entry without
\* media, an entry without progress, title 3 with nothing watched, and
\* title 4 whose first file is the first file of title 1 under a link
ScanTitle(c) == [ NoTitle EXCEPT !.userPreferred = Some(<< c >>) ]
ScanCollection ==
  [ lists |-> Some(<<
      [ status |-> Some(CURRENT),
        entries |-> Some(<<
          Entry(31, Some(Media(1, ScanTitle("a"), Some(12), None)), Some(CURRENT),
                Some(2), None),
          Entry(32, None, Some(CURRENT), Some(2), None),
          Entry(33, Some(Media(2, ScanTitle("b"), Some(12), None)), Some(CURRENT),
                None, None) >>) ],
      [ status |-> Some(PLANNING), entries |-> None ],
      [ status |-> Some(PAUSED),
        entries |-> Some(<<
          Entry(34, Some(Media(3, ScanTitle("c"), Some(12), None)), Some(PAUSED),
                Some(0), None),
          Entry(35, Some(Media(4, NoTitle, Some(12), None)), Some(PAUSED),
                Some(1), None) >>) ] >>) ]

\* the lookups the host may answer for the title of an entry
LocalLookups(mediaId) ==
  CASE mediaId = 1 ->
         { FilesFail,
           FilesOk(Some(<< LocalFile(<< "/", "a", "/", "1" >>, Some(1), FALSE),
                           LocalFile(<< "/", "a", "/", "2" >>, Some(2), TRUE),
                           LocalFile(<< "/", "a", "/", "3" >>, Some(3), FALSE),
                           LocalFile(<< "/", "b", "/", "x" >>, Some(1), FALSE),
                           LocalFile(<< "/", "a", "/", "s" >>, None, FALSE),
                           LocalFile(<< "/", "a", "/", "0" >>, Some(0), FALSE) >>)) }
    [] mediaId = 3 ->
         { FilesOk(Some(<< LocalFile(<< "/", "a", "/", "4" >>, Some(1), FALSE) >>)) }
    [] OTHER ->
         { FilesOk(None),
           FilesOk(Some(<< LocalFile(<< "/", "a", "/", "1" >>, Some(1), FALSE) >>)) }

\* a lookup of a suspended scan settles; the last one to settle lets the
\* scan run to its end
ScanLookupSettles ==
  /\ \E run \in scans, i \in 1..Len(allEntriesOf(ScanCollection.lists[1])) :
       /\ run.lookups[i].state = "pending"
       /\ \E lookup \in LocalLookups(run.lookups[i].entry.media[1].id) :
            LET listEntry == run.lookups[i].entry
                settled == [ run EXCEPT !.lookups[i] =
                               ScanReturned(listEntry,
                                 scannedFiles(tray, disk.present, listEntry, lookup)) ]
            IN IF ScanSettled(settled)
               THEN tray' = scanEnds(tray, settled) /\ scans' = scans \ { run }
               ELSE tray' = tray /\ scans' = (scans \ { run }) \cup { settled }
  /\ last' = LastEvent("scan-lookup", NoPayload)
  /\ UNCHANGED << trayStorage, disk, trayFrame >>

\* the loop of deleteFiles: $os.remove on every file in turn; it throws for a
\* path that is not on disk and for a path the system refuses to remove
RECURSIVE removeAll(_, _, _)
removeAll(found, d, refused) ==
  IF found = << >>
  THEN d
  ELSE IF Head(found).path \in d.present \ refused
  THEN removeAll(Tail(found),
                 [ d EXCEPT !.present = @ \ { Head(found).path },
                            !.removed = Append(@, Head(found).path) ],
                 refused)
  ELSE removeAll(Tail(found), [ d EXCEPT !.failed = Append(@, Head(found).path) ],
                 refused)

\* the cells deleteFiles leaves after the disk went from `before` to `after`
deleteEnds(cells, before, after) ==
  [ cells EXCEPT
      !.isDeleting = FALSE,
      !.deletionProgress = Len(after.removed) - Len(before.removed),
      !.filesToDelete = << >>,
      !.totalSize = 0,
      !.deleteError =
        IF after.failed # << >>
        THEN [ text |-> "Failed to delete  files.", failed |-> Len(after.failed) ]
        ELSE NoDeleteError ]

\* the paths the system may refuse to remove
Refusals == { {}, { << "/", "a", "/", "1" >> } }

\* the handler of delete-files: deleteFiles, whose loop has no await and runs
\* to its end inside the handler
OnDeleteFiles ==
  /\ IF tray.isDeleting
     THEN UNCHANGED << tray, disk >>
     ELSE \E refused \in Refusals :
            LET after == removeAll(tray.filesToDelete, [ disk EXCEPT !.failed = << >> ],
                                   refused)
            IN /\ disk' = after
               /\ tray' = deleteEnds(tray, disk, after)
  /\ last' = LastEvent("delete-files", NoPayload)
  /\ UNCHANGED << trayStorage, scans, trayFrame >>

\* the handler of cancel-delete
OnCancelDelete ==
  /\ tray' = [ tray EXCEPT !.filesToDelete = << >>, !.totalSize = 0 ]
  /\ last' = LastEvent("cancel-delete", NoPayload)
  /\ UNCHANGED << trayStorage, scans, disk, trayFrame >>

\* the files on disk when the session begins; the host goes on reporting a
\* file after it was removed
LibraryPaths ==
  { << "/", "a", "/", "1" >>, << "/", "a", "/", "2" >>, << "/", "a", "/", "3" >>,
    << "/", "b", "/", "x" >>, << "/", "a", "/", "s" >>, << "/", "a", "/", "0" >>,
    << "/", "a", "/", "4" >> }

\* what the user typed into the settings tab before the session's first scan:
\* the path, the lock switch and the new exclusion
DeleteSessions ==
  { << << >>, TRUE, << >> >>,
    << << "/", "a", " " >>, FALSE, << >> >>,
    << << >>, FALSE, << " ", "X" >> >>,
    << << "/", "a", " " >>, TRUE, << " ", "X" >> >> }

\* the settings of the session: the user has typed a path or none, switched
\* the lock filter, added an exclusion or none, and saved
InitDelete ==
  /\ ListCellsInit
  /\ ViewInit
  /\ PrefInit(EmptyStore)
  /\ PureIdle
  /\ remote = { FetchOk(ScanCollection), FetchOk([ lists |-> None ]),
                FetchThrow(TRUE, "network unreachable") }
  /\ scans = {}
  /\ disk = [ present |-> LibraryPaths, removed |-> << >>, failed |-> << >> ]
  /\ \E session \in DeleteSessions :
       LET started0 == trayStart(EmptyTrayStore)
           typed == [ started0.cells EXCEPT !.customEpisodeStorePathRef = session[1],
                                            !.ignoreLockedRef = session[2],
                                            !.newExcludePathRef = session[3] ]
           saved == saveSettings(started0.store, addToExclude(typed))
       IN tray = saved.cells /\ trayStorage = saved.store

NextDelete ==
  \/ OnScanFiles
  \/ ScanLookupSettles
  \/ OnDeleteFiles
  \/ OnCancelDelete
SpecDelete == InitDelete /\ [][NextDelete]_vars

\* ------------------------------------------------------- the view's handlers
viewFrame == << ctlVars, prefVars, remote, pureVars, delVars >>

\* the handler of the rows message: setRows, then the render and the effects
OnRows(rowSets) ==
  /\ \E newRows \in rowSets :
       view' = Commit(view, [ view EXCEPT !.rows = newRows ])
  /\ UNCHANGED viewFrame

\* the handler of the column-visibility message
OnColumnVisibility ==
  /\ \E value \in { DEFAULT_COLUMN_VISIBILITY,
                     [ DEFAULT_COLUMN_VISIBILITY EXCEPT !["unwatched"] = FALSE ] } :
       view' = clampScrollEffect(
                 [ view EXCEPT !.columnVisibility =
                                 Spread(DEFAULT_COLUMN_VISIBILITY, value) ])
  /\ UNCHANGED viewFrame

SortKeys == { "title", "watched", "total", "score", "progress", "unwatched", "format" }
\* the sortable header of a column is there when the table and the column are
HasSortHeader(v, key) ==
  /\ hasTable(v)
  /\ IF key = "unwatched" THEN showUnwatchedColumn(v) ELSE v.columnVisibility[key]

\* a click on a sortable header: onSortColumn, then the render
OnSortColumn ==
  /\ \E key \in SortKeys :
       /\ HasSortHeader(view, key)
       /\ view' = Render(onSortColumn(view, key))
  /\ UNCHANGED viewFrame

\* a click on a status tab: setActiveTab, then the render and the effects
OnSelectTab ==
  /\ \E status \in { CURRENT, PAUSED } :
       /\ status # view.activeTab
       /\ view' = Commit(view, [ view EXCEPT !.activeTab = status ])
  /\ UNCHANGED viewFrame

\* the scroll container scrolled: onScroll
OnScroll(offsets) ==
  /\ hasTable(view)
  /\ \E px \in offsets :
       /\ px <= maxScrollTop(view)
       /\ view' = [ view EXCEPT !.elScrollTop = px, !.scrollTop = px ]
  /\ UNCHANGED viewFrame

\* the scroll container resized: updateViewport, then the clamp effect
OnResize(heights) ==
  /\ hasTable(view)
  /\ \E px \in heights :
       LET resized == [ view EXCEPT !.elClientHeight = px ]
       IN view' = clampScrollEffect(
                    [ resized EXCEPT !.viewportHeight =
                                       ClientHeightOr(resized, DEFAULT_VIEWPORT_HEIGHT) ])
  /\ UNCHANGED viewFrame

\* rows as the controller syncs them: in title order, one of them enriched or not
ViewEntries ==
  << Entry(42, Some(Media(2, [ NoTitle EXCEPT !.userPreferred = Some(<< "a" >>) ], None, None)),
           Some(CURRENT), None, None),
     Entry(41, Some(Media(1, [ NoTitle EXCEPT !.romaji = Some(<< "b" >>) ], Some(12), Some(10))),
           Some(CURRENT), Some(5), Some(85)),
     Entry(43, Some(Media(3, [ NoTitle EXCEPT !.english = Some(<< "c" >>) ], Some(3), None)),
           Some(CURRENT), Some(3), Some(7)),
     Entry(44, Some(Media(4, [ NoTitle EXCEPT !.native = Some(<< "d" >>) ], Some(24), None)),
           Some(PAUSED), Some(12), Some(90)) >>
ViewBase(enrichedToo) ==
  [ i \in 1..Len(ViewEntries) |->
      LET row == Val(toRow(ViewEntries[i], None))
      IN IF enrichedToo /\ Eligible(row) THEN enrichRow(row, LibraryEntry(row.mediaId))
         ELSE row ] \o << >>
\* the rows of base at the indices in S, in their order
Pick(base, S) ==
  [ k \in 1..Cardinality(S) |->
      base[CHOOSE i \in S : Cardinality({ j \in S : j < i }) = k - 1] ] \o << >>
\* TLC computes the rows once and hands them to all of its workers: compared
\* with itself, the value is evaluated in full before it is handed out
Concrete(v) == IF v = v THEN v ELSE v
ViewRowSets ==
  Concrete({ Pick(ViewBase(enrichedToo), S) :
               enrichedToo \in BOOLEAN, S \in SUBSET (1..Len(ViewEntries)) })

InitView ==
  /\ CtlInit
  /\ PureIdle

NextView ==
  \/ OnRows(ViewRowSets)
  \/ OnColumnVisibility
  \/ OnSortColumn
  \/ OnSelectTab
SpecView == InitView /\ [][NextView]_vars

\* ------------------------------------------------ the virtualization window
\* the title of the i-th of many rows: its number in four digits
NumberedTitle(i) == NatToString(1000 + i)
ManyRows(n) ==
  [ i \in 1..n |->
      Val(toRow(Entry(i, Some(Media(i, [ NoTitle EXCEPT !.romaji = Some(NumberedTitle(i)) ],
                                    None, None)),
                      Some(CURRENT), None, None), None)) ] \o << >>
ManyRowSets ==
  Concrete({ ManyRows(n) :
               n \in { VIRTUALIZE_AFTER_ROWS, VIRTUALIZE_AFTER_ROWS + 1, MaxRows } })

\* scroll offsets: at the top of a row, and part of the way into it
ScrollRows == { 0, 5, 9, 10, 11, 100, 200, MaxRows - 21, MaxRows - 10, MaxRows - 1 }
ScrollOffsets ==
  { row * height + into :
      row \in ScrollRows,
      height \in { ROW_HEIGHT_PLAIN, ROW_HEIGHT_WITH_EPISODES },
      into \in { 0, 31 } }
\* heights of the scroll container: not laid out yet, ten rows of either
\* height, and between
ClientHeights ==
  { 0, 10 * ROW_HEIGHT_PLAIN, DEFAULT_VIEWPORT_HEIGHT, 10 * ROW_HEIGHT_WITH_EPISODES }

InitWindow ==
  /\ CtlInit
  /\ PureIdle

\* the first rows arrive, then the user scrolls, resizes and hides the column
NextWindow ==
  \/ (view.rows = << >> /\ OnRows(ManyRowSets))
  \/ OnColumnVisibility
  \/ OnScroll(ScrollOffsets)
  \/ OnResize(ClientHeights)
SpecWindow == InitWindow /\ [][NextWindow]_vars

\* ------------------------------------------- the status normalizer on its own
GARBAGE == << "G", "A", "R", "B", "A", "G", "E" >>
WATCHING == << "W", "A", "T", "C", "H", "I", "N", "G" >>
StatusWords ==
  { CURRENT, REPEATING, COMPLETED, PAUSED, DROPPED, PLANNING, GARBAGE, WATCHING, << >> }
Capitalized(w) ==
  IF w = << >> THEN w ELSE << Head(w) >> \o toLowerCase(Tail(w))
Casings(w) == { w, toLowerCase(w), Capitalized(w) }
Pads == Seqs(WhiteSpace, MaxPad)
StatusTokens ==
  { None } \cup
  { Some(p1 \o c \o p2) :
      p1 \in Pads, p2 \in Pads, c \in UNION { Casings(w) : w \in StatusWords } }

InitNorm ==
  /\ CtlInit
  /\ phase = "token"
  /\ token \in StatusTokens
  /\ normalized = None
  /\ entry = NoEntry
  /\ fallback = None
  /\ projected = None
  /\ files = NoFiles
  /\ enriched = None

NormalizeStep ==
  /\ phase = "token"
  /\ normalized' = normalizeStatus(token)
  /\ phase' = "normalized"
  /\ UNCHANGED << ctlVars, prefVars, remote, view, delVars, token, entry, fallback, projected, files, enriched >>

NextNorm == NormalizeStep
SpecNorm == InitNorm /\ [][NextNorm]_vars

\* -------------------------------- the row projector and the enricher on one row
OptInts(lo, hi) == { None } \cup { Some(n) : n \in lo..hi }

\* progress 5, next airing episode 10, episodes 6, 7 and 9 on disk
ScenarioEntry ==
  Entry(21, Some(Media(7, [ NoTitle EXCEPT !.english = Some(<< "s" >>) ],
                       None, Some(10))),
        Some(CURRENT), Some(5), None)
ScenarioFiles ==
  [ episodes |-> Some(<< FileRecord(TRUE, 6, 6), FileRecord(TRUE, 7, 7),
                         FileRecord(TRUE, 9, 9) >>) ]
\* a long-running title: 83 watched, 85 released, episodes 84 and 90 on disk
LongEntry ==
  Entry(22, Some(Media(8, [ NoTitle EXCEPT !.native = Some(<< "l" >>) ],
                       Some(100), Some(86))),
        Some(CURRENT), Some(83), None)
LongFiles ==
  [ episodes |-> Some(<< FileRecord(TRUE, 90, 90), FileRecord(TRUE, 84, 84) >>) ]

\* a backlog: 3 watched, 95 released
BacklogEntry ==
  Entry(23, Some(Media(9, [ NoTitle EXCEPT !.romaji = Some(<< "k" >>) ],
                       Some(100), Some(96))),
        Some(CURRENT), Some(3), None)

GenStatuses == { None, Some(toLowerCase(PAUSED)) }
GenFallbacks == { None, Some(CURRENT) }
GenEntries ==
  { Entry(1, Some(Media(1, NoTitle, episodes, nextAiringEpisode)), status, progress, None) :
      episodes \in OptInts(-1, MaxEp),
      nextAiringEpisode \in OptInts(0, MaxEp + 1),
      status \in GenStatuses,
      progress \in OptInts(-1, MaxEp) }
\* the top of the 100-point scale the remote service scores on
SCORE_SCALE_MAX == 100
\* entries that differ in their raw score only: absent, and 0 to the top of the scale
ScoreEntries ==
  { Entry(3, Some(Media(3, NoTitle, None, None)), Some(COMPLETED), Some(1), score) :
      score \in OptInts(0, SCORE_SCALE_MAX) }
RowEntries ==
  GenEntries \cup ScoreEntries
  \cup { ScenarioEntry, LongEntry, BacklogEntry,
         Entry(2, None, Some(CURRENT), Some(1), None) }

GenFileRecords ==
  { None, FileRecord(FALSE, 1, 1), FileRecord(TRUE, 0, 2), FileRecord(TRUE, 0, 0) }
  \cup { FileRecord(TRUE, n, n) : n \in 1..(MaxEp + 1) }
RowFiles ==
  { [ episodes |-> None ], ScenarioFiles, LongFiles }
  \cup { [ episodes |-> Some(f) ] : f \in Seqs(GenFileRecords, MaxFiles) }

InitRow ==
  /\ CtlInit
  /\ phase = "entry"
  /\ token = None
  /\ normalized = None
  /\ entry \in RowEntries
  /\ fallback \in GenFallbacks
  /\ projected = None
  /\ files = NoFiles
  /\ enriched = None

\* toRow on the drawn entry
ProjectStep ==
  /\ phase = "entry"
  /\ projected' = toRow(entry, fallback)
  /\ phase' = "projected"
  /\ UNCHANGED << ctlVars, prefVars, remote, view, delVars, token, normalized, entry, fallback, files, enriched >>

\* one row callback of enrichRowsWithDownloadInfo whose lookup returned an entry
EnrichStep ==
  /\ phase = "projected"
  /\ IsSome(projected)
  /\ Eligible(Val(projected))
  /\ \E f \in RowFiles :
       /\ files' = f
       /\ enriched' = Some(enrichRow(Val(projected), f))
  /\ phase' = "enriched"
  /\ UNCHANGED << ctlVars, prefVars, remote, view, delVars, token, normalized, entry, fallback, projected >>

\* one row callback that returns its row at once: not CURRENT, or
\* releasedUnwatched unknown
SkipStep ==
  /\ phase = "projected"
  /\ IsSome(projected)
  /\ ~Eligible(Val(projected))
  /\ enriched' = projected
  /\ phase' = "skipped"
  /\ UNCHANGED << ctlVars, prefVars, remote, view, delVars, token, normalized, entry, fallback, projected, files >>

NextRow == ProjectStep \/ EnrichStep \/ SkipStep
SpecRow == InitRow /\ [][NextRow]_vars

\* ------------------------------------------------------------------ claims
\* the step ends invocation run: no invocation with its token is suspended after it
Ends(run) == \A r \in enrichRuns' : r.runId # run.runId
\* the enrich invocation whose lookup settled in the step just taken
SettledRun == CHOOSE r \in enrichRuns : r.runId = last'.runId
\* the enrich invocation with token id is no longer suspended
Finished(id) == \A r \in enrichRuns : r.runId # id
IsEnriched(row) == IsSome(row.episodeStatuses)

\* C1: an invocation whose token no longer equals the counter when it resumes
\* at its commit point changes neither the rows, nor the error, nor the
\* loading flag, nor the enrichment flag.
C1_StaleCommitChangesNothing ==
  [][ \A run \in enrichRuns :
        (run.runId # refreshRunId /\ Ends(run))
          => UNCHANGED << rowsState, errorState, loadingState, isEpDataLoadingState >>
    ]_vars

\* a superseded enrich has run to its end, holding rows other than those shown
C1_Witness ==
  /\ last.op = "lookup"
  /\ last.lookup.ok
  /\ last.runId < refreshRunId
  /\ Finished(last.runId)
  /\ \A i \in 1..Len(rowsState) : ~IsEnriched(rowsState[i])

\* C3: once every started invocation has finished, the loading flag and the
\* enrichment flag are both false.
C3_IdleMeansNotLoading ==
  (started /\ enrichRuns = {}) => (~loadingState /\ ~isEpDataLoadingState)

\* every invocation has finished, the last of them a superseded enrich
C3_Witness ==
  /\ started
  /\ enrichRuns = {}
  /\ last.op = "lookup"
  /\ last.runId < refreshRunId

\* C4: the enrich invocation that commits replaces exactly the rows it read
\* when it started.
C4_CommitReplacesItsSnapshot ==
  [][ \A run \in enrichRuns :
        (Ends(run) /\ (run.runId = refreshRunId \/ rowsState' # rowsState))
          => rowsState = run.currentRows
    ]_vars

\* an enrich that started after other invocations has committed enriched rows
C4_Witness ==
  /\ last.op = "lookup"
  /\ last.runId = refreshRunId
  /\ refreshRunId >= 3
  /\ Finished(last.runId)
  /\ \E i \in 1..Len(rowsState) : IsEnriched(rowsState[i])

\* C5: a failed load ends with no rows, the failure message as the error, one
\* more failure notification and loading false; a successful load ends with
\* the loaded rows, no error and loading false.
C5_LoadOutcome ==
  [][ (last'.op = "load") =>
        IF last'.fetch.ok
        THEN /\ rowsState' = loadRows(last'.fetch.collection)
             /\ errorState' = ""
             /\ ~loadingState'
        ELSE /\ rowsState' = << >>
             /\ errorState' = (IF last'.fetch.isError
                               THEN last'.fetch.message
                               ELSE "Failed to fetch anime list")
             /\ toasts' = Append(toasts, "Failed to load anime list")
             /\ ~loadingState'
    ]_vars

\* a load failed after an earlier load had put rows in place
C5_Witness ==
  /\ last.op = "load"
  /\ ~last.fetch.ok
  /\ errorState = "network unreachable"
  /\ \E k \in 1..Len(debugLogsState) :
       /\ debugLogsState[k].tag = "refreshRows:success rows="
       /\ debugLogsState[k].nums[1] > 0

\* C6: a failed lookup leaves its row as it was, appends a diagnostic entry,
\* and changes neither the error nor the notifications; every row whose own
\* lookup returned is enriched from it, and the commit holds each row so.
C6_RowFailureIsLocal ==
  [][ (last'.op = "lookup") =>
        LET run == SettledRun
            i == last'.index
            rowAfter(j) ==
              IF j = i
              THEN IF last'.lookup.ok
                   THEN enrichRow(run.currentRows[j], last'.lookup.entry)
                   ELSE run.currentRows[j]
              ELSE IF run.lookups[j].state = "ok"
              THEN enrichRow(run.currentRows[j], run.lookups[j].entry)
              ELSE run.currentRows[j]
        IN /\ ~last'.lookup.ok =>
                /\ errorState' = errorState
                /\ run.runId = refreshRunId => errorState' = ""
                /\ toasts' = toasts
                /\ SubSeq(debugLogsState', 1, Len(debugLogsState) + 1)
                     = Append(debugLogsState,
                              Log("download-info:error mediaId= message=",
                                  << run.currentRows[i].mediaId >>,
                                  last'.lookup.message))
           /\ \A r \in enrichRuns' :
                r.runId = run.runId =>
                  \A j \in 1..Len(r.lookups) :
                    r.lookups[j].state # "pending" => r.lookups[j].row = rowAfter(j)
           /\ (Ends(run) /\ run.runId = refreshRunId) =>
                /\ rowsState' = [ j \in 1..Len(run.currentRows) |-> rowAfter(j) ]
                /\ errorState' = ""
    ]_vars

\* an enrich has committed with one eligible row enriched and another, whose
\* lookup failed, as it was
C6_Witness ==
  /\ last.op = "lookup"
  /\ last.runId = refreshRunId
  /\ Finished(last.runId)
  /\ errorState = ""
  /\ toasts = << >>
  /\ \E i, j \in 1..Len(rowsState) :
       /\ Eligible(rowsState[i]) /\ ~IsEnriched(rowsState[i])
       /\ Eligible(rowsState[j]) /\ IsEnriched(rowsState[j])
  /\ \E k \in 1..Len(debugLogsState) :
       debugLogsState[k].tag = "download-info:error mediaId= message="

\* C7: every enriched CURRENT row has
\* neededToDownload = max(0, releasedUnwatched - downloadedUnwatched), not negative.
C7_NeededToDownload ==
  (phase = "enriched" /\ Val(enriched).status = CURRENT) =>
    LET row == Val(enriched)
    IN /\ IsSome(row.neededToDownload)
       /\ Val(row.neededToDownload) >= 0
       /\ Val(row.neededToDownload)
            = Max2(0, Val(row.releasedUnwatched) - Val(row.downloadedUnwatched))

\* an enriched row with episodes on disk and episodes still to download
C7_Witness ==
  /\ phase = "enriched"
  /\ Val(Val(enriched).downloadedUnwatched) > 0
  /\ Val(Val(enriched).neededToDownload) > 0
  /\ Val(Val(enriched).releasedUnwatched) > Val(Val(enriched).neededToDownload)

\* the episode numbers and states of the timeline the scenario of C8 names
ScenarioTimeline ==
  [ k \in 1..9 |->
      [ episode |-> k,
        state |-> IF k <= 5 THEN "watched" ELSE IF k = 8 THEN "missing" ELSE "downloaded" ] ]

\* C8: the timeline lists the episode numbers of the window in increasing
\* order, each at most once: watched up to watchedUntil, else downloaded when
\* on disk, else missing up to latestEpisode, else left out; and the scenario
\* (progress 5, latestEpisode 9, episodes 6, 7, 9 on disk) gives 1-5 watched,
\* 6 and 7 downloaded, 8 missing, 9 downloaded, with counts 3, 4 and 1.
C8_TimelineClassification ==
  (phase = "enriched") =>
    LET row == Val(enriched)
        timeline == Val(row.episodeStatuses)
        onDisk == downloadedEpisodeNumbers(files)
        watchedUntil == Max2(0, row.progress)
        released(e) == IsSome(row.latestEpisode) /\ e <= Val(row.latestEpisode)
        windowEnd ==
          SetMax({ 0, watchedUntil } \cup onDisk
                 \cup (IF IsSome(row.latestEpisode) THEN { Val(row.latestEpisode) } ELSE {}))
        windowStart == Max2(1, windowEnd - 79)
    IN /\ \A k \in 1..(Len(timeline) - 1) :
            timeline[k].episode < timeline[k + 1].episode
       /\ { timeline[k].episode : k \in 1..Len(timeline) }
            = { e \in windowStart..windowEnd :
                  e <= watchedUntil \/ e \in onDisk \/ released(e) }
       /\ \A k \in 1..Len(timeline) :
            timeline[k].state =
              (IF timeline[k].episode <= watchedUntil THEN "watched"
               ELSE IF timeline[k].episode \in onDisk THEN "downloaded"
               ELSE "missing")
       /\ (entry = ScenarioEntry /\ files = ScenarioFiles) =>
            /\ row.progress = 5
            /\ row.latestEpisode = Some(9)
            /\ timeline = ScenarioTimeline
            /\ row.downloadedUnwatched = Some(3)
            /\ row.releasedUnwatched = Some(4)
            /\ row.neededToDownload = Some(1)

\* the scenario of C8 has been enriched
C8_Witness ==
  /\ phase = "enriched"
  /\ entry = ScenarioEntry
  /\ files = ScenarioFiles
  /\ Len(Val(Val(enriched).episodeStatuses)) = 9

\* C9: the normalizer trims and uppercases its token, then maps CURRENT and
\* REPEATING to CURRENT, the four other categories to themselves, any other
\* non-empty token to CURRENT and an absent or empty token to no status.
C9_NormalizeStatus ==
  (phase = "normalized") =>
    /\ (token = None \/ token = Some(<< >>)) => normalized = None
    /\ \A w \in StatusWords : \A c \in Casings(w) : \A p1 \in Pads, p2 \in Pads :
         (token = Some(p1 \o c \o p2) /\ p1 \o c \o p2 # << >>)
           => normalized =
                Some(IF w \in { COMPLETED, PAUSED, DROPPED, PLANNING } THEN w ELSE CURRENT)
    /\ token = Some(<< "c", "u", "r", "r", "e", "n", "t" >>) => normalized = Some(CURRENT)
    /\ token = Some(<< " ", "C", "u", "r", "r", "e", "n", "t", " " >>)
         => normalized = Some(CURRENT)
    /\ token = Some(REPEATING) => normalized = Some(CURRENT)
    /\ token = Some(<< "c", "o", "m", "p", "l", "e", "t", "e", "d" >>)
         => normalized = Some(COMPLETED)
    /\ token = Some(<< "g", "a", "r", "b", "a", "g", "e" >>) => normalized = Some(CURRENT)

\* the token " Current " has been normalized to CURRENT
C9_Witness ==
  /\ phase = "normalized"
  /\ token = Some(<< " ", "C", "u", "r", "r", "e", "n", "t", " " >>)
  /\ normalized = Some(CURRENT)

\* C10: a projected row has releasedUnwatched unknown exactly when
\* latestEpisode is unknown, and otherwise max(0, latestEpisode - progress).
C10_ReleasedUnwatched ==
  (phase # "entry" /\ IsSome(projected)) =>
    LET row == Val(projected)
    IN /\ IsSome(row.releasedUnwatched) <=> IsSome(row.latestEpisode)
       /\ IsSome(row.releasedUnwatched) =>
            /\ Val(row.releasedUnwatched) >= 0
            /\ Val(row.releasedUnwatched)
                 = Max2(0, Val(row.latestEpisode) - row.progress)

\* a projected row whose progress is beyond the latest released episode
C10_Witness ==
  /\ phase = "projected"
  /\ IsSome(projected)
  /\ IsSome(Val(projected).latestEpisode)
  /\ Val(projected).progress > Val(Val(projected).latestEpisode)
  /\ Val(projected).releasedUnwatched = Some(0)

\* C11: a projected row has latestEpisode unknown or not negative, equal to
\* max(0, nextAiring - 1) when a next airing episode is known and to
\* totalEpisodes otherwise, never above totalEpisodes when both are known;
\* totalEpisodes unknown or positive; progress not negative.
C11_EpisodeCountsInRange ==
  (phase # "entry" /\ IsSome(projected)) =>
    LET row == Val(projected)
        media == Val(entry.media)
        fromNext == Max2(0, Val(media.nextAiringEpisode) - 1)
    IN /\ IsSome(row.totalEpisodes) => Val(row.totalEpisodes) > 0
       /\ IsSome(row.latestEpisode) => Val(row.latestEpisode) >= 0
       /\ (IsSome(row.latestEpisode) /\ IsSome(row.totalEpisodes))
            => Val(row.latestEpisode) <= Val(row.totalEpisodes)
       /\ row.latestEpisode =
            (IF IsSome(media.nextAiringEpisode)
             THEN (IF IsSome(row.totalEpisodes)
                   THEN Some(Min2(fromNext, Val(row.totalEpisodes)))
                   ELSE Some(fromNext))
             ELSE row.totalEpisodes)
       /\ row.progress >= 0

ProjectableAt(collection) ==
  LET lists == OrEmpty(collection.lists)
  IN { << l, e >> \in (1..Len(lists)) \X (1..MaxListLen + 1) :
         /\ e <= Len(OrEmpty(lists[l].entries))
         /\ IsSome(OrEmpty(lists[l].entries)[e].media)
         /\ (TruthyStr(OrEmpty(lists[l].entries)[e].status) \/ TruthyStr(lists[l].status)) }
EntryIdAt(collection, at) ==
  OrEmpty(OrEmpty(collection.lists)[at[1]].entries)[at[2]].id

\* C13: a load of a collection commits one row for every projectable entry
\* (an entry listed twice gives two rows, an unprojectable one none), in
\* non-decreasing order of title whatever the order of the source, and a second
\* load of the same collection commits the same rows in the same order.
C13_LoadIsRepeatableAndSorted ==
  [][ (last'.op = "load" /\ last'.fetch.ok) =>
        LET collection == last'.fetch.collection
            rows == rowsState'
            at == ProjectableAt(collection)
        IN /\ Len(rows) = Cardinality(at)
           /\ \A id \in { EntryIdAt(collection, a) : a \in at } :
                Cardinality({ i \in 1..Len(rows) : rows[i].entryId = id })
                  = Cardinality({ a \in at : EntryIdAt(collection, a) = id })
           /\ \A i \in 1..Len(rows) : \A j \in i..Len(rows) :
                /\ localeCompare(rows[i].title, rows[j].title) <= 0
                /\ PrimaryCompare(toLowerCase(rows[i].title), toLowerCase(rows[j].title)) <= 0
           /\ (last.op = "load" /\ last.fetch = last'.fetch) => rowsState' = rowsState
    ]_vars

\* a collection out of title order, with an entry listed twice and an entry
\* without a title record, has been loaded a second time
C13_Witness ==
  /\ last.op = "load"
  /\ last.fetch.ok
  /\ refreshRunId = 2
  /\ Len(rowsState) = 3
  /\ rowsState # loadRowsUnsorted(last.fetch.collection)
  /\ \E i, j \in 1..Len(rowsState) : i # j /\ rowsState[i].entryId = rowsState[j].entryId
  /\ Len(OrEmpty(Val(last.fetch.collection.lists)[1].entries))
       + Len(OrEmpty(Val(last.fetch.collection.lists)[2].entries)) = 4

\* the column a set-column-visibility payload names is one of the nine
NamesColumn(payload) ==
  /\ IsObject(payload)
  /\ payload.column.t = "string"
  /\ payload.column.s \in ColumnKeys

\* C14: a set-column-visibility request whose column is not one of the nine
\* column identifiers changes neither the visibility map, nor the store, nor
\* the diagnostic log, and the map never has a key outside the nine.
C14_UnknownColumnIsNoOp ==
  [][ /\ (last'.op = "set-column-visibility" /\ ~NamesColumn(last'.payload))
          => UNCHANGED << columnVisibilityState, storage, debugLogsState >>
      /\ (DOMAIN columnVisibilityState \subseteq ColumnKeys)
          => (DOMAIN columnVisibilityState' \subseteq ColumnKeys)
    ]_vars

\* the size a set-cover-size payload asks for is a finite number
AsksFiniteSize(payload) == IsObject(payload) /\ isFinite(payload.size)

\* C15: after startup and after every set-cover-size request the thumbnail
\* size is within [28, 92], every size written to the store is within
\* [28, 92], and a finite size asked for outside the range is applied and
\* persisted as the nearest bound.
C15_CoverSizeWithinBounds ==
  [][ /\ coverSizeState' \in COVER_SIZE_MIN..COVER_SIZE_MAX
      /\ storage'.coverSize # storage.coverSize =>
           /\ isFinite(storage'.coverSize) /\ ~storage'.coverSize.half
           /\ storage'.coverSize.n \in COVER_SIZE_MIN..COVER_SIZE_MAX
      /\ (last'.op = "set-cover-size" /\ AsksFiniteSize(last'.payload)) =>
           LET asked == last'.payload.size
           IN /\ storage'.coverSize = Num(coverSizeState')
              /\ (asked.n > COVER_SIZE_MAX \/ (asked.n = COVER_SIZE_MAX /\ asked.half))
                   => coverSizeState' = COVER_SIZE_MAX
              /\ asked.n < COVER_SIZE_MIN => coverSizeState' = COVER_SIZE_MIN
              /\ (asked.n \in COVER_SIZE_MIN..COVER_SIZE_MAX /\ ~asked.half)
                   => coverSizeState' = asked.n
    ]_vars

\* a size above the range has been applied and persisted as 92 where the
\* store held a size below the range
C15_Witness ==
  /\ last.op = "set-cover-size"
  /\ last.payload.size = Num(200)
  /\ coverSizeState = COVER_SIZE_MAX
  /\ storage.coverSize = Num(COVER_SIZE_MAX)
  /\ storage.showFormatColumn = Bool(FALSE)
  /\ IsSome(storage.columnVisibility)

\* the payload of a presentation event lacks a field or has one of the wrong type
InvalidPayload(op, payload) ==
  \/ ~IsObject(payload)
  \/ op = "set-column-visibility" /\ typeof(payload.visible) # "boolean"
  \/ op = "set-cover-size" /\ typeof(payload.size) # "number"
  \/ op = "open-anime" /\ typeof(payload.mediaId) # "number"

\* C16: a presentation event whose payload is missing, or lacks or has an
\* invalid field (visible not a boolean, size missing, null or not a number,
\* title id not a number), changes neither the rows, nor the flags, nor the
\* error, nor the preferences, nor the store.
C16_InvalidPayloadIsNoOp ==
  [][ (last'.op \in { "set-column-visibility", "set-cover-size", "open-anime" }
         /\ InvalidPayload(last'.op, last'.payload))
        => UNCHANGED << rowsState, loadingState, isEpDataLoadingState, errorState,
                        columnVisibilityState, coverSizeState, storage >>
    ]_vars

\* C20: the diagnostic log never holds more than 120 entries; an append to a
\* log of 120 drops its oldest entry, keeps the others in order and puts the
\* new entry last, and an append to a shorter log only adds the entry.
C20_LogKeepsNewest120 ==
  [][ /\ Len(debugLogsState') <= 120
      /\ (last'.op = "open-anime" /\ navigations' # navigations) =>
           LET logLine == Log("channel:open-anime mediaId=",
                              << last'.payload.mediaId.n >>, last'.payload.mediaId.k)
           IN debugLogsState' =
                IF Len(debugLogsState) = 120
                THEN Append(Tail(debugLogsState), logLine)
                ELSE Append(debugLogsState, logLine)
    ]_vars

\* two appends to the full log have dropped its two oldest entries
C20_Witness ==
  /\ Len(debugLogsState) = 120
  /\ Len(navigations) = 117
  /\ debugLogsState[1].tag = "refreshRows:base-loaded rows="
  /\ debugLogsState[120].tag = "channel:open-anime mediaId="

\* the value a numeric sort key orders the row by is missing or unknown
UnknownFor(row, sortKey) ==
  CASE sortKey = "total" -> ~IsSome(row.totalEpisodes)
    [] sortKey = "score" -> ~IsSome(row.score)
    [] sortKey = "progress" -> ~IsSome(progressSortValue(row))
    [] sortKey = "unwatched" -> ~IsSome(row.downloadedUnwatched)
    [] OTHER -> FALSE

\* C17: in the sorted view, under every numeric sort key (watched, total,
\* score, progress, unwatched) and in both directions, no row whose value for
\* the key is missing or unknown comes before a row whose value is known.
C17_UnknownValuesSortLast ==
  view.sortKey \in { "watched", "total", "score", "progress", "unwatched" } =>
    \A i \in 1..Len(view.sortedRows) : \A j \in 1..Len(view.sortedRows) :
      (/\ i < j
       /\ UnknownFor(view.sortedRows[i], view.sortKey))
        => UnknownFor(view.sortedRows[j], view.sortKey)

\* the row at the scroll offset, and the row-heights the viewport covers
RowAtScroll(v) == v.scrollTop \div virtualRowHeight(v)
RowsInViewport(v) == CeilDiv(v.viewportHeight, virtualRowHeight(v))
\* the rows at the indices [from, to) of the sorted view, indices from 0
SortedRange(v, from, to) == SubSeq(v.sortedRows, from + 1, to)

\* C18 as stated: with more than 120 rows in the filtered and sorted set, at
\* the scroll offset of row s and a viewport of v row-heights, the materialized
\* rows are exactly those at [s - 10, s + v + 10) clamped to [0, rows).
C18_WindowIsOverscanAroundViewport ==
  Len(view.sortedRows) > 120 =>
    rowsForRender(view) =
      SortedRange(view, Max2(0, RowAtScroll(view) - 10),
                  Min2(Len(view.sortedRows),
                       RowAtScroll(view) + RowsInViewport(view) + 10))

\* C18 amended: with more than 120 rows, the materialized rows are exactly
\* those at [a, a + v + 20) cut at the number of rows, where a is s - 10 clamped
\* to [0, rows - 1]: the window keeps its v + 20 rows when fewer than 10 rows
\* lie above the scroll offset.
C18_WindowFromClampedStart ==
  Len(view.sortedRows) > 120 =>
    LET a == Min2(Len(view.sortedRows) - 1, Max2(0, RowAtScroll(view) - 10))
    IN rowsForRender(view) =
         SortedRange(view, a,
                     Min2(Len(view.sortedRows), a + RowsInViewport(view) + 20))

\* 500 rows, the scroll offset at row 200 and a viewport of 10 row-heights:
\* the rows materialized are those at [190, 220)
C18_Witness ==
  /\ Len(view.sortedRows) = 500
  /\ RowAtScroll(view) = 200
  /\ RowsInViewport(view) = 10
  /\ rowsForRender(view) = SortedRange(view, 190, 220)
  /\ Len(rowsForRender(view)) = 30

\* C19: with more than 120 rows in the filtered set, at every scroll offset and
\* viewport size, top spacer + materialized rows x row height + bottom spacer
\* is filtered rows x row height, the row height 84 with the episode-state
\* column shown and 62 without; with at most 120 rows every row is
\* materialized and both spacers are 0.
C19_SpacersKeepTotalHeight ==
  LET rowHeight == IF showUnwatchedColumn(view) THEN 84 ELSE 62
  IN IF Len(view.visibleRows) > 120
     THEN topSpacerHeight(view) + Len(rowsForRender(view)) * rowHeight
            + bottomSpacerHeight(view)
          = Len(view.visibleRows) * rowHeight
     ELSE /\ rowsForRender(view) = view.sortedRows
          /\ Len(rowsForRender(view)) = Len(view.visibleRows)
          /\ topSpacerHeight(view) = 0
          /\ bottomSpacerHeight(view) = 0

\* a window in the middle of 500 rows of height 84, a spacer on each side
C19_Witness ==
  /\ Len(view.visibleRows) = 500
  /\ showUnwatchedColumn(view)
  /\ topSpacerHeight(view) > 0
  /\ bottomSpacerHeight(view) > 0
  /\ Len(rowsForRender(view)) < 500

\* C21: a load, an enrich and the lookups of an enrich (current or superseded,
\* succeeding or failing) change neither the column-visibility map, nor the
\* thumbnail size, nor the key/value store; set-column-visibility and
\* set-cover-size change neither the rows, nor the loading flag, nor the
\* enrichment flag, nor the error, nor the run counter.
C21_CyclesAndPreferencesApart ==
  [][ /\ last'.op \in { "load", "enrich", "lookup" }
           => UNCHANGED << columnVisibilityState, coverSizeState, storage >>
      /\ last'.op \in { "set-column-visibility", "set-cover-size" }
           => UNCHANGED << rowsState, loadingState, isEpDataLoadingState,
                           errorState, refreshRunId >>
    ]_vars

\* a size was set while a load had failed, and afterwards a lookup of a
\* superseded enrich failed: the error and the preferences are as they were left
C21_Witness ==
  /\ last.op = "lookup"
  /\ ~last.lookup.ok
  /\ last.runId < refreshRunId
  /\ errorState = "network unreachable"
  /\ coverSizeState = 64
  /\ storage.coverSize = Num(64)
  /\ storage.showFormatColumn = Bool(FALSE)
  /\ ~columnVisibilityState["format"]

\* an open-title request whose title id is a number
OpensTitle(event) ==
  /\ event.op = "open-anime"
  /\ IsObject(event.payload)
  /\ typeof(event.payload.mediaId) = "number"

\* C22 as stated: an open-title request with a numeric title id forwards that
\* id to the navigation action once and changes no local state: the rows, the
\* flags, the error, the preferences, the run counter and the diagnostic log
\* are as they were.
C22_OpenTitleChangesNoState ==
  [][ OpensTitle(last') =>
        /\ navigations' = Append(navigations,
                                 [ path |-> "/entry", id |-> last'.payload.mediaId ])
        /\ UNCHANGED << rowsState, loadingState, isEpDataLoadingState, errorState,
                        columnVisibilityState, coverSizeState, storage, refreshRunId,
                        debugLogsState >>
    ]_vars

\* C22 amended: such a request forwards that id to the navigation action once,
\* appends one entry that names the id to the diagnostic log, and changes
\* nothing else: the rows, the flags, the error, the notifications, the
\* preferences, the store and the run counter are as they were.
C22_OpenTitleOnlyLogs ==
  [][ OpensTitle(last') =>
        /\ navigations' = Append(navigations,
                                 [ path |-> "/entry", id |-> last'.payload.mediaId ])
        /\ Len(debugLogsState) < 120 =>
             /\ Len(debugLogsState') = Len(debugLogsState) + 1
             /\ SubSeq(debugLogsState', 1, Len(debugLogsState)) = debugLogsState
        /\ debugLogsState'[Len(debugLogsState')].tag = "channel:open-anime mediaId="
        /\ debugLogsState'[Len(debugLogsState')].nums = << last'.payload.mediaId.n >>
        /\ UNCHANGED << rowsState, loadingState, isEpDataLoadingState, errorState,
                        toasts, columnVisibilityState, coverSizeState, storage,
                        refreshRunId >>
    ]_vars

\* title 7 has been opened, once, after the rows were loaded
C22_Witness ==
  /\ last.op = "open-anime"
  /\ navigations = << [ path |-> "/entry", id |-> Num(7) ] >>
  /\ Len(rowsState) > 0
  /\ debugLogsState[Len(debugLogsState)].tag = "channel:open-anime mediaId="

\* the other direction
Flipped(sortDir) == IF sortDir = "asc" THEN "desc" ELSE "asc"
\* the step is a sort-column selection: the sort order changes and the rows,
\* the tab and the columns stay
SortColumnSelected ==
  /\ view'.rows = view.rows
  /\ view'.activeTab = view.activeTab
  /\ view'.columnVisibility = view.columnVisibility
  /\ << view'.sortKey, view'.sortDir >> # << view.sortKey, view.sortDir >>

\* C23: in every state the view reaches, selecting the active sort key flips
\* the direction and keeps the key, and selecting another key makes it the
\* active key with direction ascending; and every selection made did so.
C23_SortColumnSelection ==
  /\ [](\A key \in SortKeys :
          HasSortHeader(view, key) =>
            /\ onSortColumn(view, key).sortKey = key
            /\ onSortColumn(view, key).sortDir =
                 (IF key = view.sortKey THEN Flipped(view.sortDir) ELSE "asc"))
  /\ [][ SortColumnSelected =>
           view'.sortDir = (IF view'.sortKey = view.sortKey
                            THEN Flipped(view.sortDir) ELSE "asc")
       ]_vars

\* the score column selected twice: sorted by score, descending
C23_Witness ==
  /\ view.sortKey = "score"
  /\ view.sortDir = "desc"
  /\ Len(view.sortedRows) > 1

\* C24: every invocation of load or enrich raises the run counter by exactly
\* one and takes the new value as its token; no other step changes the
\* counter; so no token is above the counter, no two invocations hold the
\* same token, and at most one invocation holds the token equal to the counter.
C24_RunCounter ==
  /\ [](/\ \A run \in enrichRuns : run.runId <= refreshRunId
        /\ \A r1, r2 \in enrichRuns : r1.runId = r2.runId => r1 = r2
        /\ Cardinality({ run \in enrichRuns : run.runId = refreshRunId }) <= 1)
  /\ [][ /\ refreshRunId' >= refreshRunId
         /\ IF last'.op \in { "load", "enrich" }
            THEN /\ refreshRunId' = refreshRunId + 1
                 /\ last'.op = "enrich" =>
                      \A run \in enrichRuns' \ enrichRuns : run.runId = refreshRunId'
            ELSE refreshRunId' = refreshRunId
       ]_vars

\* two enrich invocations are suspended, the later one holding the counter
C24_Witness ==
  /\ refreshRunId = 3
  /\ { run.runId : run \in enrichRuns } = { 2, 3 }
  /\ last.op \in { "set-column-visibility", "set-cover-size" }

\* C25: once an enrich invocation has been superseded, nothing it does is
\* observable: no step of it, a lookup of it that fails included, appends a
\* diagnostic log entry or emits a notification.
C25_SupersededIsSilent ==
  [][ (last'.op = "lookup" /\ last'.runId < refreshRunId)
        => UNCHANGED << debugLogsState, toasts >>
    ]_vars

\* the fields of a row an enrichment does not compute
BaseFields(row) ==
  << row.entryId, row.mediaId, row.title, row.progress, row.latestEpisode,
     row.totalEpisodes, row.releasedUnwatched, row.score, row.status, row.format >>

\* a row not CURRENT, or whose released-unwatched count is unknown
OutsideEnrichment(row) ==
  row.status # CURRENT \/ row.releasedUnwatched = None

\* C26: an enrichment issues no local-file lookup for a row that is not
\* CURRENT or whose released-unwatched count is unknown, and the rows a
\* current enrichment commits are as many as it snapshotted, in the same
\* order, each with its non-enrichment fields as they were and each row
\* outside the enrichment exactly as it was
C26_EnrichKeepsRowsOutside ==
  /\ [](\A run \in enrichRuns :
          /\ Len(run.lookups) = Len(run.currentRows)
          /\ \A j \in 1..Len(run.currentRows) :
                OutsideEnrichment(run.currentRows[j])
                  => /\ run.lookups[j].state = "returned"
                     /\ run.lookups[j].row = run.currentRows[j])
  /\ [][ /\ last'.op = "lookup"
             => ~OutsideEnrichment(SettledRun.currentRows[last'.index])
         /\ (last'.op = "lookup" /\ Ends(SettledRun) /\ last'.runId = refreshRunId)
             => /\ Len(rowsState') = Len(SettledRun.currentRows)
                /\ \A j \in 1..Len(rowsState') :
                      /\ BaseFields(rowsState'[j])
                           = BaseFields(SettledRun.currentRows[j])
                      /\ OutsideEnrichment(SettledRun.currentRows[j])
                           => rowsState'[j] = SettledRun.currentRows[j]
         /\ (last'.op = "enrich" /\ \A r \in enrichRuns' : r.runId # last'.runId)
             => rowsState' = rowsState
       ]_vars

\* a current enrichment has committed three rows: one enriched, one CURRENT
\* with an unknown count and one PAUSED, both without enrichment
C26_Witness ==
  /\ last.op = "lookup"
  /\ last.runId = refreshRunId
  /\ Finished(last.runId)
  /\ Len(rowsState) = 3
  /\ \E j \in 1..3 : IsEnriched(rowsState[j])
  /\ \E j \in 1..3 :
        /\ rowsState[j].status = CURRENT
        /\ rowsState[j].releasedUnwatched = None
        /\ ~IsEnriched(rowsState[j])
  /\ \E j \in 1..3 :
        /\ rowsState[j].status = PAUSED
        /\ ~IsEnriched(rowsState[j])

\* the episode number a file record reports
RecordNumber(record) ==
  IF record.progressNumber # 0 THEN record.progressNumber ELSE record.episodeNumber

\* the episode numbers the drawn file collection reports as downloaded
OnDisk ==
  LET episodes == IF files.episodes = None THEN << >> ELSE files.episodes[1]
  IN { n \in { RecordNumber(episodes[i][1]) :
                 i \in { j \in 1..Len(episodes) :
                           episodes[j] # None /\ episodes[j][1].isDownloaded } } :
         n > 0 }

\* the row the enricher was applied to, and the row it returned
RowBefore == projected[1]
RowAfter == enriched[1]
WatchedUntil == IF RowBefore.progress > 0 THEN RowBefore.progress ELSE 0

\* C27: the downloadedUnwatched of an enriched row is the number of distinct
\* downloaded episode numbers above max(0, progress) and at most latestEpisode:
\* several file records of one episode count once, episodes above
\* latestEpisode or at most progress do not count
C27_DownloadedUnwatchedCount ==
  phase = "enriched"
    => /\ RowBefore.latestEpisode # None
       /\ RowAfter.downloadedUnwatched =
            << Cardinality({ n \in OnDisk :
                               n > WatchedUntil /\ n <= RowBefore.latestEpisode[1] }) >>

\* two file records report the same downloaded episode, which counts once
C27_Witness ==
  /\ phase = "enriched"
  /\ files.episodes # None
  /\ Len(files.episodes[1]) = 2
  /\ \A i \in 1..2 : files.episodes[1][i] # None /\ files.episodes[1][i][1].isDownloaded
  /\ RecordNumber(files.episodes[1][1][1]) = RecordNumber(files.episodes[1][2][1])
  /\ RowAfter.downloadedUnwatched = << 1 >>

\* max(watchedUntil, latestEpisode or 0, highestDownloaded)
MaxEpisodeFor ==
  LET known == { WatchedUntil } \cup OnDisk
                 \cup (IF RowBefore.latestEpisode = None THEN {}
                       ELSE { RowBefore.latestEpisode[1] })
  IN CHOOSE m \in known : \A x \in known : x <= m

\* the first episode of the trailing window of 80 that ends at maxEpisode
WindowStartFor ==
  IF MaxEpisodeFor - MAX_RENDERED_PILLS + 1 > 1
  THEN MaxEpisodeFor - MAX_RENDERED_PILLS + 1 ELSE 1

Timeline == RowAfter.episodeStatuses[1]

\* C28: the timeline of an enriched row has at most 80 entries, its episode
\* numbers are strictly increasing, and all lie in the trailing window that
\* ends at maxEpisode and starts no lower than episode 1
C28_TimelineInTrailingWindow ==
  phase = "enriched"
    => /\ Len(Timeline) <= MAX_RENDERED_PILLS
       /\ \A i \in 1..(Len(Timeline) - 1) :
             Timeline[i].episode < Timeline[i + 1].episode
       /\ \A i \in 1..Len(Timeline) :
             /\ Timeline[i].episode >= WindowStartFor
             /\ Timeline[i].episode >= 1
             /\ Timeline[i].episode <= MaxEpisodeFor

\* a run longer than the window: 80 entries, the first past episode 1
C28_Witness ==
  /\ phase = "enriched"
  /\ MaxEpisodeFor > MAX_RENDERED_PILLS
  /\ Len(Timeline) = MAX_RENDERED_PILLS
  /\ Timeline[1].episode = MaxEpisodeFor - MAX_RENDERED_PILLS + 1
  /\ Timeline[MAX_RENDERED_PILLS].episode = MaxEpisodeFor

\* C29, as stated: the hidden count of an enriched row is maxEpisode minus the
\* first episode number of the timeline window
C29_HiddenIsMaxMinusWindowStart ==
  phase = "enriched"
    => RowAfter.hiddenEpisodeStatusCount = MaxEpisodeFor - WindowStartFor

\* C29, amended: the hidden count of an enriched row is the number of episodes
\* below the window start, windowStart - 1, none of which is in the timeline
C29_HiddenIsEpisodesBelowWindow ==
  phase = "enriched"
    => /\ RowAfter.hiddenEpisodeStatusCount = WindowStartFor - 1
       /\ RowAfter.hiddenEpisodeStatusCount
            = Cardinality({ n \in 1..MaxEpisodeFor : n < WindowStartFor })
       /\ \A i \in 1..Len(Timeline) : Timeline[i].episode >= WindowStartFor

\* a run longer than the window, with episodes left out below its start
C29_Witness ==
  /\ phase = "enriched"
  /\ WindowStartFor > 1
  /\ RowAfter.hiddenEpisodeStatusCount > 0
  /\ RowAfter.hiddenEpisodeStatusCount = MaxEpisodeFor - MAX_RENDERED_PILLS

\* a status token that is absent or the empty string
NoStatus(status) == status = None \/ status[1] = << >>

\* the one list of the collection the last load fetched
LoadedList == last'.fetch.collection.lists[1][1]

\* C30: the projector returns no row for an entry without a title record and
\* for an entry when neither its own status nor the list's is there to
\* normalize; an entry with a title record whose own status is absent or empty
\* gets the category of the list's status; and a load skips the entries
\* without a row, commits the others, raises no notification and leaves the
\* visible error empty
C30_UnprojectableEntriesSkipped ==
  [][ (last'.op = "load" /\ last'.fetch.ok) =>
        LET fallbackStatus == LoadedList.status
            entries == LoadedList.entries[1]
            skipped == { i \in 1..Len(entries) :
                           \/ entries[i].media = None
                           \/ NoStatus(entries[i].status) /\ NoStatus(fallbackStatus) }
        IN /\ \A i \in skipped :
                /\ toRow(entries[i], fallbackStatus) = None
                /\ \A j \in 1..Len(rowsState') :
                      rowsState'[j].entryId # entries[i].id
           /\ \A i \in (1..Len(entries)) \ skipped :
                /\ toRow(entries[i], fallbackStatus) # None
                /\ \E j \in 1..Len(rowsState') :
                      rowsState'[j] = toRow(entries[i], fallbackStatus)[1]
                /\ NoStatus(entries[i].status)
                     => \A j \in 1..Len(rowsState') :
                          rowsState'[j].entryId = entries[i].id
                            => rowsState'[j].status = fallbackStatus[1]
           /\ Len(rowsState') = Len(entries) - Cardinality(skipped)
           /\ errorState' = ""
           /\ toasts' = toasts
           /\ ~loadingState'
    ]_vars

\* a COMPLETED list with an entry without a title record and an entry whose
\* status is the empty string has been loaded: one row, COMPLETED, no error
C30_Witness ==
  /\ last.op = "load"
  /\ last.fetch.ok
  /\ last.fetch.collection.lists[1][1].status = Some(COMPLETED)
  /\ \E i, k \in 1..Len(last.fetch.collection.lists[1][1].entries[1]) :
        /\ last.fetch.collection.lists[1][1].entries[1][i].media = None
        /\ last.fetch.collection.lists[1][1].entries[1][k].media # None
        /\ last.fetch.collection.lists[1][1].entries[1][k].status = Some(<< >>)
  /\ Len(rowsState) = 1
  /\ rowsState[1].status = COMPLETED
  /\ errorState = ""
  /\ toasts = << >>

RequestAccepted == debugLogsState' # debugLogsState

\* C32: the step of an accepted set-column-visibility request leaves in the
\* store the map it leaves in memory, the step of an accepted set-cover-size
\* request leaves in the store the size it leaves in memory; the write is part
\* of the handler's own step
C32_StoreFollowsPreference ==
  [][ /\ (last'.op = "set-column-visibility" /\ RequestAccepted)
          => /\ storage'.columnVisibility = << columnVisibilityState' >>
             /\ storage'.coverSize = storage.coverSize
             /\ storage'.showFormatColumn = storage.showFormatColumn
      /\ (last'.op = "set-cover-size" /\ RequestAccepted)
          => /\ storage'.coverSize = Num(coverSizeState')
             /\ storage'.columnVisibility = storage.columnVisibility
             /\ storage'.showFormatColumn = storage.showFormatColumn
    ]_vars

\* a request has hidden the cover column of a session that started from a
\* store without a map: the store holds the map in memory
C32_Witness ==
  /\ last.op = "set-column-visibility"
  /\ last.payload = WithColumn(Str("cover", << >>), Bool(FALSE))
  /\ ~columnVisibilityState["cover"]
  /\ storage.columnVisibility = << columnVisibilityState >>
  /\ storage.showFormatColumn = Bool(FALSE)
  /\ ~columnVisibilityState["format"]

\* the stored per-column map, empty when the store has none
StoredMap == IF storage.columnVisibility = None THEN << >>
             ELSE storage.columnVisibility[1]

\* the defaults overlaid with the stored map, and the single boolean of the
\* first version for the format column when the stored map has none
SeededVisibility ==
  [ k \in ColumnKeys \cup DOMAIN StoredMap |->
      IF k = "format" /\ "format" \notin DOMAIN StoredMap
         /\ storage.showFormatColumn.t = "boolean"
      THEN storage.showFormatColumn.b
      ELSE IF k \in DOMAIN StoredMap THEN StoredMap[k]
      ELSE TRUE ]

\* C33: when a session starts, the visibility map is the defaults overlaid
\* with the stored map, the single boolean of the first version deciding the
\* format column only when the stored map has no format entry; the map an
\* accepted set-column-visibility request persists has a format entry, the
\* stored map keeps one once it has one, and a restart then takes the format
\* column from the stored map whatever the single boolean says
C33_LegacyMigrationIsOneTime ==
  /\ [](~started => columnVisibilityState = SeededVisibility)
  /\ [][ /\ (last'.op = "set-column-visibility" /\ RequestAccepted)
             => "format" \in DOMAIN storage'.columnVisibility[1]
         /\ "format" \in DOMAIN StoredMap
             => /\ storage'.columnVisibility # None
                /\ "format" \in DOMAIN storage'.columnVisibility[1]
         /\ (last'.op = "restart" /\ "format" \in DOMAIN StoredMap)
             => columnVisibilityState'["format"] = StoredMap["format"]
         /\ storage'.showFormatColumn = storage.showFormatColumn
       ]_vars

\* a session that started with the format column hidden by the single
\* boolean showed the column; the next session shows it, the boolean still
\* saying hidden
C33_Witness ==
  /\ last.op = "restart"
  /\ ~started
  /\ storage.showFormatColumn = Bool(FALSE)
  /\ storage.columnVisibility # None
  /\ columnVisibilityState["format"]
  /\ ~columnVisibilityState["cover"]
  /\ coverSizeState = COVER_SIZE_MAX

\* one of the four enrichment fields of the row is filled
HasEnrichment(row) ==
  \/ row.downloadedUnwatched # None
  \/ row.neededToDownload # None
  \/ row.episodeStatuses # None
  \/ row.hiddenEpisodeStatusCount # 0

\* the step is the commit of the enrichment that holds the newest token
EnrichCommits ==
  /\ last'.op = "lookup"
  /\ Ends(SettledRun)
  /\ last'.runId = refreshRunId

\* C34: a row of the row set has an enrichment field filled only if it is
\* CURRENT with a known released-unwatched count; right after a load no row
\* has one filled; the row set changes only when a load or the enrichment
\* with the newest token commits, that enrichment started from the row set
\* as it is at the commit (no load came between), and a row it leaves with an
\* enrichment field filled is one whose lookup it settled or one that had the
\* field filled before, so every filled field dates from an enrichment that
\* committed after the last load
C34_EnrichmentOnlyFromEnrich ==
  /\ [](\A i \in 1..Len(rowsState) :
          HasEnrichment(rowsState[i])
            => /\ rowsState[i].status = CURRENT
               /\ rowsState[i].releasedUnwatched # None)
  /\ [][ /\ last'.op = "load"
              => \A i \in 1..Len(rowsState') : ~HasEnrichment(rowsState'[i])
         /\ rowsState' # rowsState => (last'.op = "load" \/ EnrichCommits)
         /\ EnrichCommits
              => /\ SettledRun.currentRows = rowsState
                 /\ Len(rowsState') = Len(rowsState)
                 /\ \A i \in 1..Len(rowsState') :
                       HasEnrichment(rowsState'[i])
                         => \/ HasEnrichment(rowsState[i])
                            \/ /\ SettledRun.lookups[i].state # "returned"
                               /\ \/ SettledRun.lookups[i].state = "ok"
                                  \/ last'.index = i /\ last'.lookup.ok
       ]_vars

\* a load has committed after an enrichment did: its rows, one of them
\* eligible, have no enrichment field filled
C34_Witness ==
  /\ last.op = "load"
  /\ last.fetch.ok
  /\ \E k \in 1..Len(debugLogsState) :
        debugLogsState[k].tag = "loadEnrichedEpisodes:success rows="
  /\ \E i \in 1..Len(rowsState) :
        rowsState[i].status = CURRENT /\ rowsState[i].releasedUnwatched # None
  /\ \A i \in 1..Len(rowsState) : ~HasEnrichment(rowsState[i])

\* C35: for an enriched row whose progress is not negative, downloadedUnwatched
\* is at most releasedUnwatched, and downloadedUnwatched + neededToDownload is
\* releasedUnwatched
C35_DownloadedPlusNeededIsReleased ==
  (phase = "enriched" /\ RowBefore.progress >= 0)
    => /\ RowAfter.releasedUnwatched # None
       /\ RowAfter.downloadedUnwatched # None
       /\ RowAfter.neededToDownload # None
       /\ RowAfter.downloadedUnwatched[1] <= RowAfter.releasedUnwatched[1]
       /\ RowAfter.downloadedUnwatched[1] + RowAfter.neededToDownload[1]
            = RowAfter.releasedUnwatched[1]

\* a row with released episodes on disk and released episodes not on disk,
\* and a downloaded episode that is not released yet
C35_Witness ==
  /\ phase = "enriched"
  /\ RowBefore.progress > 0
  /\ RowAfter.downloadedUnwatched[1] > 0
  /\ RowAfter.neededToDownload[1] > 0
  /\ \E n \in OnDisk : n > RowBefore.latestEpisode[1]

\* the entries of the timeline in state missing
MissingEntries == { i \in 1..Len(Timeline) : Timeline[i].state = "missing" }

\* C36: for an enriched row whose progress is not negative, the timeline has
\* as many missing entries as neededToDownload says when no episode is hidden
\* below the window, and at most as many when some are
C36_MissingMatchesNeeded ==
  (phase = "enriched" /\ RowBefore.progress >= 0)
    => /\ RowAfter.neededToDownload # None
       /\ RowAfter.hiddenEpisodeStatusCount = 0
            => Cardinality(MissingEntries) = RowAfter.neededToDownload[1]
       /\ RowAfter.hiddenEpisodeStatusCount > 0
            => Cardinality(MissingEntries) <= RowAfter.neededToDownload[1]

\* a backlog longer than the window: episodes to download lie below the
\* window, so the timeline shows fewer missing entries than neededToDownload
C36_Witness ==
  /\ phase = "enriched"
  /\ RowBefore.progress >= 0
  /\ RowAfter.hiddenEpisodeStatusCount > 0
  /\ Cardinality(MissingEntries) > 0
  /\ Cardinality(MissingEntries) < RowAfter.neededToDownload[1]

\* the height of a row of the table, and the largest scroll offset of the
\* rows under a viewport of the height the view holds
RowHeight == IF showUnwatchedColumn(view) THEN 84 ELSE 62
MaxScrollOffset ==
  IF Len(view.sortedRows) * RowHeight > view.viewportHeight
  THEN Len(view.sortedRows) * RowHeight - view.viewportHeight ELSE 0
\* the rows, by index from 0, of which a part lies in
\* [scrollTop, scrollTop + viewportHeight)
OverlapsViewport(i) ==
  /\ i * RowHeight < view.scrollTop + view.viewportHeight
  /\ (i + 1) * RowHeight > view.scrollTop

\* C37: with more than 120 rows and the scroll offset between 0 and the
\* largest offset, the materialized window is not empty, has at most
\* ceil(viewportHeight / rowHeight) + 20 rows, and holds every row that
\* overlaps the viewport
C37_WindowCoversViewport ==
  (/\ Len(view.sortedRows) > 120
   /\ view.scrollTop >= 0
   /\ view.scrollTop <= MaxScrollOffset)
    => /\ Len(rowsForRender(view)) >= 1
       /\ Len(rowsForRender(view))
            <= ((view.viewportHeight + RowHeight - 1) \div RowHeight) + 20
       /\ rowsForRender(view)
            = SortedRange(view, virtualStart(view), virtualEnd(view))
       /\ \A i \in 0..(Len(view.sortedRows) - 1) :
             OverlapsViewport(i)
               => (virtualStart(view) <= i /\ i < virtualEnd(view))

\* scrolled to the largest offset of 500 rows: the window starts past the
\* first row, ends with the last, and the viewport ends inside the last row
C37_Witness ==
  /\ Len(view.sortedRows) = 500
  /\ view.scrollTop > 0
  /\ view.scrollTop = MaxScrollOffset
  /\ virtualStart(view) > 0
  /\ virtualEnd(view) = 500
  /\ OverlapsViewport(499)
  /\ Len(rowsForRender(view)) < 500


\* C38: the settings of the tray round-trip through the store: when the
\* plugin starts after save-settings, ignoreLocked, showFullPath,
\* customEpisodeStorePath and excludeList are initialised to the values the
\* handler wrote.  Violated: a saved ignoreLocked of false is read back as
\* absent and the setting starts as true.
C38_SettingsRoundTrip ==
  [][ (last.op = "save-settings" /\ last'.op = "tray-start")
        => /\ tray'.ignoreLocked = trayStorage.ignoreLocked.b
           /\ tray'.showFullPath = trayStorage.showFullPath.b
           /\ tray'.customEpisodeStorePath = trayStorage.customEpisodeStorePath.chars
           /\ tray'.excludeList = trayStorage.excludeList.items ]_vars


PathsOf(found) == { found[i].path : i \in 1..Len(found) }
NoRepeats(paths) ==
  \A i \in 1..Len(paths), j \in 1..Len(paths) : paths[i] = paths[j] => i = j
\* the paths removed by the step
RemovedNow == SubSeq(disk'.removed, Len(disk.removed) + 1, Len(disk'.removed))
\* a file some lookup of some entry of the library reports, with the episode
\* and the path of `listed`, that is watched and passes the three filters
PassedTheFilters(listed) ==
  \E i \in 1..Len(allEntriesOf(ScanCollection.lists[1])) :
    LET scanned == allEntriesOf(ScanCollection.lists[1])[i]
    IN /\ scanned.media # None /\ scanned.progress # None
       /\ \E lookup \in LocalLookups(scanned.media[1].id) :
            /\ lookup.ok /\ lookup.localFiles # None
            /\ \E k \in 1..Len(lookup.localFiles[1]) :
                 LET file == lookup.localFiles[1][k]
                 IN /\ file.path = listed.path
                    /\ file.episode = Some(listed.episode)
                    /\ 0 < listed.episode /\ listed.episode <= scanned.progress[1]
                    /\ tray.ignoreLocked => ~file.locked
                    /\ tray.customEpisodeStorePath # << >> =>
                         SubSeq(file.path, 1, Len(tray.customEpisodeStorePath)) =
                           tray.customEpisodeStorePath
                    /\ \A e \in 1..Len(tray.excludeList) :
                         ~includes(toLowerCase(file.path), toLowerCase(tray.excludeList[e]))

====
